---- MODULE Spec2Model ----
(***************************************************************************)
(* State-machine model of the Prosilica areaDetector driver                *)
(* (ADApp/prosilicaSrc/prosilica.cpp): the camera session, its two PvAPI   *)
(* frame buffers, the frame-completion callback running on the PvAPI       *)
(* callback thread, and the client operations running under the session    *)
(* mutex.                                                                  *)
(***************************************************************************)
EXTENDS Integers, Sequences, FiniteSets, TLC

\* ------------------------------------------------------------------------
\* Bounds of the model
\* ------------------------------------------------------------------------

\* Number of NDArray blocks the NDArrayPool hands out in one run.
MaxImages == 5

\* Number of PvAPI calls and frames that fail in one run, beyond the step at
\* which a connectCamera is made to fail.
MaxFaults == 1

\* Largest image count a client writes to ADNumImages.
MaxNumImages == 2

\* Number of calls (connectCamera, disconnectCamera, writeInt32) that clients
\* make in one run, after the constructor's connectCamera.
MaxCalls == 2

\* ------------------------------------------------------------------------
\* Program constants
\* ------------------------------------------------------------------------

MAX_FRAMES == 2

NULL == 0

\* Value of a pointer member that no constructor initialised.
Indeterminate == -1

asynSuccess == 0

asynError == 1

ADImageSingle == 0

ADImageMultiple == 1

ADImageContinuous == 2

ADStatusIdle == 0

ADStatusAcquire == 1

Slots == 0 .. (MAX_FRAMES - 1)

ImageIds == 1 .. MaxImages

\* tPvFrame.Status values the callback distinguishes.
FrameStatuses == {"ePvErrSuccess", "ePvErrCancelled", "ePvErrDataMissing"}

\* Values of the camera's AcquisitionMode enum attribute.
AcquisitionModes == {"SingleFrame", "MultiFrame", "Recorder", "Continuous"}

\* PSTriggerStartStrings: the camera's FrameStartTriggerMode names, in the
\* order of the ADTriggerMode values 0 .. 6.
PSTriggerStartStrings ==
    << "Freerun", "SyncIn1", "SyncIn2", "SyncIn3", "SyncIn4", "FixedRate",
       "Software" >>

NUM_START_TRIGGER_MODES == Len(PSTriggerStartStrings)

\* NDDataType_t values a client can request.
NDDataTypes ==
    { "NDInt8", "NDUInt8", "NDInt16", "NDUInt16", "NDInt32", "NDUInt32",
      "NDFloat32", "NDFloat64" }

\* Values of the camera's PixelFormat enum attribute.
PixelFormats == {"Mono8", "Mono16", "Bayer8", "Bayer16", "Rgb24"}

\* A connectCamera that opens the camera before it has looked at the
\* access it is permitted.
ConnectStepsOpenFirst ==
    << "PvCameraInfo", "PvCameraOpen", "PermittedAccess",
       "PvCaptureAdjustPacketSize", "PvCaptureStart", "SensorQuery",
       "alloc0", "queue0", "alloc1", "queue1",
       "setParams", "readParameters", "readStats", "none" >>

\* The points at which connectCamera can return early, in program order.
ConnectSteps ==
    << "PvCameraInfo", "PermittedAccess", "PvCameraOpen",
       "PvCaptureAdjustPacketSize", "PvCaptureStart", "SensorQuery",
       "alloc0", "queue0", "alloc1", "queue1",
       "setParams", "readParameters", "readStats", "none" >>

StepNumbers ==
    [name \in {ConnectSteps[i] : i \in 1 .. Len(ConnectSteps)} |->
        CHOOSE i \in 1 .. Len(ConnectSteps) : ConnectSteps[i] = name]

StepNo(step) == StepNumbers[step]

\* TRUE when a connect that fails at `fail` has completed `step`.
Passed(step, fail) == StepNo(fail) > StepNo(step)

VARIABLES
    PvHandle,         \* this->PvHandle: NULL or the open handle (1)
    PvFrames,         \* this->PvFrames[i]: Context[1], Status and frame data
    pArrays,          \* this->pArrays[0]: the most recent good image
    framesRemaining,  \* this->framesRemaining
    params,           \* the parameter library (addr 0)
    published,        \* the values observers saw at the last callParamCallbacks
    connected,        \* asynManager's connected state (exceptionConnect)
    mutexOwner,       \* this->mutexId: "none", "client" or "cb"
    hw,               \* the camera as PvAPI presents it
    pool,             \* this->pNDArrayPool
    cb,               \* the PvAPI callback thread inside frameCallback
    client,           \* the client thread: the call it made last, and where it is
    sink,             \* images handed to doCallbacksHandle, in order
    crashed,          \* where the process died ("none" while it runs)
    last,             \* what the last client call did and returned
    acq,              \* bookkeeping: the acquisition the client last started
    calls             \* bookkeeping: how many calls the clients have made

vars == << PvHandle, PvFrames, pArrays, framesRemaining, params, published,
           connected, mutexOwner, hw, pool, cb, client, sink, crashed, last, acq,
           calls >>

\* ------------------------------------------------------------------------
\* NDArrayPool
\* ------------------------------------------------------------------------

\* NDArray::release(): one release of block img is recorded.
Release(pl, img) ==
    IF img \in ImageIds THEN [pl EXCEPT !.relCount[img] = @ + 1] ELSE pl

\* NDArrayPool::alloc(): the next fresh block.
Alloc(pl) == [pl EXCEPT !.next = @ + 1]

\* ------------------------------------------------------------------------
\* Parameter library
\* ------------------------------------------------------------------------

\* The integer parameters of writeInt32's geometry case.
GeometryParams == {"ADBinX", "ADBinY", "ADMinX", "ADMinY", "ADSizeX", "ADSizeY"}

\* The parameters writeFloat64 dispatches on.  A double is kept as a whole
\* number of a unit fine enough for the conversion made on it: ADAcquireTime
\* in nanoseconds, ADAcquirePeriod in milliseconds, ADGain in tenths.
FloatParams == {"ADAcquireTime", "ADAcquirePeriod", "ADGain"}

\* The parameters whose value is an NDDataType_t.
DataTypeParams == {"ADDataType", "ADDataType_RBV"}

ParamNames ==
    { "ADAcquire", "ADAcquire_RBV", "ADStatus_RBV",
      "ADImageCounter", "ADImageCounter_RBV", "PSBadFrameCounter_RBV",
      "ADImageMode", "ADImageMode_RBV", "ADNumImages", "ADNumImages_RBV",
      "ADTriggerMode", "ADTriggerMode_RBV", "ADDataType", "ADDataType_RBV",
      "ADBinX", "ADBinX_RBV", "ADBinY", "ADBinY_RBV",
      "ADMinX", "ADMinX_RBV", "ADMinY", "ADMinY_RBV",
      "ADSizeX", "ADSizeX_RBV", "ADSizeY", "ADSizeY_RBV",
      "ADImageSizeX_RBV", "ADImageSizeY_RBV",
      "ADAcquireTime", "ADAcquireTime_RBV",
      "ADAcquirePeriod", "ADAcquirePeriod_RBV", "ADGain", "ADGain_RBV",
      "ADAutoSave", "ADAutoSave_RBV", "ADFullFileName_RBV" }

\* The statistics parameters, followed only by the specifications that start
\* from InitStats.
StatParams == { "PSStatDriverType_RBV" }

\* The value of a parameter nothing has set yet.
Unset(n) ==
    IF n \in DataTypeParams THEN "NDInt8"
    ELSE IF n \in StatParams THEN ""
    ELSE 0

\* callParamCallbacks(): observers now see every value of the library.
callParamCallbacks(p) == p

\* function+1 in writeInt32: the readback that follows each command.
RBV(function) ==
    CASE function = "ADAcquire"       -> "ADAcquire_RBV"
      [] function = "ADImageMode"     -> "ADImageMode_RBV"
      [] function = "ADNumImages"     -> "ADNumImages_RBV"
      [] function = "ADTriggerMode"   -> "ADTriggerMode_RBV"
      [] function = "ADDataType"      -> "ADDataType_RBV"
      [] function = "ADBinX"          -> "ADBinX_RBV"
      [] function = "ADBinY"          -> "ADBinY_RBV"
      [] function = "ADMinX"          -> "ADMinX_RBV"
      [] function = "ADMinY"          -> "ADMinY_RBV"
      [] function = "ADSizeX"         -> "ADSizeX_RBV"
      [] function = "ADSizeY"         -> "ADSizeY_RBV"
      [] function = "ADAcquireTime"   -> "ADAcquireTime_RBV"
      [] function = "ADAcquirePeriod" -> "ADAcquirePeriod_RBV"
      [] function = "ADGain"          -> "ADGain_RBV"
      [] function = "ADAutoSave"      -> "ADAutoSave_RBV"

\* ------------------------------------------------------------------------
\* readParameters
\* ------------------------------------------------------------------------

\* What the PvAttr*Get calls of one readParameters return from a camera
\* that answers: its attributes.
GoodRead(h) ==
    [ ok |-> TRUE, mode |-> h.AcquisitionMode, count |-> h.AcquisitionFrameCount,
      pixelFormat |-> h.PixelFormat, trigger |-> h.FrameStartTriggerMode,
      binX |-> h.BinningX, binY |-> h.BinningY,
      minX |-> h.RegionX, minY |-> h.RegionY,
      sizeX |-> h.Width, sizeY |-> h.Height,
      exposure |-> h.ExposureValue, frameRate |-> h.FrameRate,
      gain |-> h.GainValue ]

\* What they leave behind when they fail: name buffers that match no known
\* name, the count at its preset of -1, and locals that were never written.
FailedRead ==
    [ ok |-> FALSE, mode |-> "?", count |-> -1,
      pixelFormat |-> "?", trigger |-> "?",
      binX |-> Indeterminate, binY |-> Indeterminate,
      minX |-> Indeterminate, minY |-> Indeterminate,
      sizeX |-> Indeterminate, sizeY |-> Indeterminate,
      exposure |-> Indeterminate, frameRate |-> Indeterminate,
      gain |-> Indeterminate ]

\* What the PvAttr*Get calls of one readParameters can return: the camera's
\* attributes when the handle is open, or a failure.
ReadOutcomes(handle, h) ==
    IF handle # NULL /\ h.open
    THEN {GoodRead(h)} \cup (IF h.faultsLeft > 0 THEN {FailedRead} ELSE {})
    ELSE {FailedRead}

\* The camera's state after one more of its calls has failed.
Fault(h, failedCall) ==
    IF failedCall THEN [h EXCEPT !.faultsLeft = @ - 1] ELSE h

\* A mapping that does not know the camera's Recorder mode.
ImageModeOfFourth(mode) ==
    CASE mode = "SingleFrame" -> ADImageSingle
      [] mode = "MultiFrame"  -> ADImageMultiple
      [] mode = "Continuous"  -> ADImageContinuous
      [] OTHER                -> 0

\* The mapping of the camera's AcquisitionMode to ADImageMode_RBV.
ImageModeOf(mode) ==
    CASE mode = "SingleFrame" -> ADImageSingle
      [] mode = "MultiFrame"  -> ADImageMultiple
      [] mode = "Recorder"    -> ADImageMultiple
      [] mode = "Continuous"  -> ADImageContinuous
      [] OTHER                -> 0

\* Lines 428-431: the camera's PixelFormat as ADDataType_RBV; intVal keeps
\* its preset of -1 for every format but Mono8 and Mono16.
DataTypeOf(pixelFormat) ==
    CASE pixelFormat = "Mono8"  -> "NDUInt8"
      [] pixelFormat = "Mono16" -> "NDUInt16"
      [] OTHER                  -> "-1"

\* An index counted from 1, the place of the name in the table.
TriggerIndexFromOne(name) ==
    IF \E i \in 1 .. NUM_START_TRIGGER_MODES : PSTriggerStartStrings[i] = name
    THEN CHOOSE i \in 1 .. NUM_START_TRIGGER_MODES : PSTriggerStartStrings[i] = name
    ELSE NUM_START_TRIGGER_MODES

\* Lines 449-458: the index of the camera's FrameStartTriggerMode in
\* PSTriggerStartStrings, counted from 0; NUM_START_TRIGGER_MODES when the
\* loop finds no match.
TriggerIndexOf(name) ==
    IF \E i \in 1 .. NUM_START_TRIGGER_MODES : PSTriggerStartStrings[i] = name
    THEN (CHOOSE i \in 1 .. NUM_START_TRIGGER_MODES : PSTriggerStartStrings[i] = name) - 1
    ELSE NUM_START_TRIGGER_MODES

\* A value computed from locals the failed reads never wrote.
Computed(rd, v) == IF rd.ok THEN v ELSE Indeterminate

\* getGeometry(): the binning, and the region scaled back by it, set as the
\* geometry parameters and as their readbacks.
getGeometry(p, rd) ==
    LET minX == Computed(rd, rd.minX * rd.binX)
        minY == Computed(rd, rd.minY * rd.binY)
        sizeX == Computed(rd, rd.sizeX * rd.binX)
        sizeY == Computed(rd, rd.sizeY * rd.binY)
    IN [p EXCEPT !["ADBinX"] = rd.binX,   !["ADBinX_RBV"] = rd.binX,
                 !["ADBinY"] = rd.binY,   !["ADBinY_RBV"] = rd.binY,
                 !["ADMinX"] = minX,      !["ADMinX_RBV"] = minX,
                 !["ADMinY"] = minY,      !["ADMinY_RBV"] = minY,
                 !["ADSizeX"] = sizeX,    !["ADSizeX_RBV"] = sizeX,
                 !["ADSizeY"] = sizeY,    !["ADSizeY_RBV"] = sizeY,
                 !["ADImageSizeX_RBV"] = rd.sizeX,
                 !["ADImageSizeY_RBV"] = rd.sizeY]

\* Lines 463-465: ExposureValue, in microseconds, as ADAcquireTime_RBV.
AcquireTimeOf(exposureValue) == exposureValue * 1000

\* A variant without the test for a rate of 0, which then gives no period.
AcquirePeriodOfZero(frameRate) ==
    IF frameRate = 0 THEN 0 ELSE 1000000 \div frameRate

\* Lines 468-471: FrameRate, kept in thousandths of a hertz, as
\* ADAcquirePeriod_RBV; a rate of 0 is taken as 1 Hz.
AcquirePeriodOf(frameRate) ==
    LET fltVal == IF frameRate = 0 THEN 1000 ELSE frameRate
    IN 1000000 \div fltVal

\* Lines 474-476: GainValue as ADGain_RBV.
GainOf(gainValue) == gainValue * 10

\* A variant that reads nothing back and leaves the library as it is.
readNothing(p, rd) == [params |-> p, status |-> asynSuccess]

\* readParameters(): the readbacks refreshed from what the camera returned
\* (rd), and the status returned.  Its callParamCallbacks is applied by the
\* caller to the params this returns.
readParameters(p, rd) ==
    LET trig == TriggerIndexOf(rd.trigger)
        g == getGeometry(p, rd)
    IN [ params |->
           [g EXCEPT !["ADDataType_RBV"] = DataTypeOf(rd.pixelFormat),
                     !["ADNumImages_RBV"] = rd.count,
                     !["ADImageMode_RBV"] = ImageModeOf(rd.mode),
                     !["ADTriggerMode_RBV"] =
                         IF trig = NUM_START_TRIGGER_MODES THEN 0 ELSE trig,
                     !["ADAcquireTime_RBV"] =
                         Computed(rd, AcquireTimeOf(rd.exposure)),
                     !["ADAcquirePeriod_RBV"] =
                         Computed(rd, AcquirePeriodOf(rd.frameRate)),
                     !["ADGain_RBV"] = Computed(rd, GainOf(rd.gain))],
         status |-> IF /\ rd.ok
                       /\ rd.mode \in AcquisitionModes
                       /\ trig # NUM_START_TRIGGER_MODES
                    THEN asynSuccess ELSE asynError ]

\* The camera's StatDriverType attribute.
StatDriverType == "Standard"

\* readStats(): the statistics of the camera stored in the library (ok: the
\* camera answers, otherwise the buffer holds no known name); it makes no
\* callParamCallbacks.  Of the ten statistics the driver type stands for
\* all; p keeps the parameters it follows.
readStats(p, ok) ==
    [n \in DOMAIN p |->
       IF n \in StatParams THEN (IF ok THEN StatDriverType ELSE "?") ELSE p[n]]

\* ------------------------------------------------------------------------
\* disconnectCamera and connectCamera as transformers of the session
\* ------------------------------------------------------------------------

\* The part of the state connect and disconnect work on, with the status
\* they return and what they did.
Cur ==
    [ PvHandle |-> PvHandle, PvFrames |-> PvFrames, params |-> params,
      published |-> published, connected |-> connected, hw |-> hw,
      pool |-> pool, crashed |-> crashed,
      status |-> asynSuccess, hwCalled |-> FALSE, released |-> 0,
      trace |-> << >> ]

RECURSIVE ReleaseAll(_, _)
\* Release the image of every slot of the set that holds one.
ReleaseAll(pl, imgs) ==
    IF imgs = {} THEN pl
    ELSE LET i == CHOOSE x \in imgs : TRUE
         IN ReleaseAll(Release(pl, i), imgs \ {i})

\* The images disconnectCamera's loop releases: one per PvFrames slot whose
\* Context[1] is an image.
SlotImages(frames) == {frames[s].Context1 : s \in Slots} \cap ImageIds

\* Lines 496-498: the calls disconnectCamera() makes on a session that has
\* a handle, in program order.
DisconnectCalls == << "PvCaptureQueueClear", "PvCaptureEnd", "PvCameraClose" >>

\* disconnectCamera() from PvCaptureEnd on, PvCaptureQueueClear having
\* returned.  closeOk: PvCameraClose succeeded.  overrun: what the walk of
\* `while (pFrame)` past PvFrames[MAX_FRAMES-1] does: the pointer is never
\* NULL, so the loop leaves the array (undefined behaviour) and the process
\* either dies there or the loop is left without further damage.
disconnectTeardown(st, closeOk, overrun) ==
    LET hw1 == IF closeOk
               THEN [st.hw EXCEPT !.open = FALSE, !.capturing = FALSE,
                                  !.acquiring = FALSE]
               ELSE Fault(st.hw, TRUE)
        nulled == [s \in Slots |-> [st.PvFrames[s] EXCEPT !.Context1 = NULL]]
        imgs == SlotImages(st.PvFrames)
        st1 == [st EXCEPT !.hw = hw1,
                          !.PvFrames = nulled,
                          !.pool = ReleaseAll(st.pool, imgs),
                          !.released = Cardinality(imgs),
                          !.hwCalled = TRUE,
                          !.trace = DisconnectCalls,
                          !.status = IF closeOk THEN asynSuccess ELSE asynError]
    IN IF overrun = "crash"
       THEN [st1 EXCEPT !.crashed = "disconnectCamera"]
       ELSE [st1 EXCEPT !.PvHandle = NULL]

\* The steps a connectCamera() that returns at step `fail` went through, in
\* program order, the last being the one that failed; a connect that fails
\* nowhere ends with exceptionConnect (line 653).
ConnectCalls(fail) ==
    IF fail = "none"
    THEN SubSeq(ConnectSteps, 1, Len(ConnectSteps) - 1) \o << "exceptionConnect" >>
    ELSE SubSeq(ConnectSteps, 1, StepNo(fail))

\* connectCamera() after its leading disconnectCamera(), returning early at
\* step `fail` ("none": every step succeeds).  rd is what readParameters
\* reads from the camera.
connectBody(st, fail, rd) ==
    LET opened == Passed("PvCameraOpen", fail)
        a0 == st.pool.next
        a1 == st.pool.next + 1
        bound0 == Passed("alloc0", fail)
        bound1 == Passed("alloc1", fail)
        frames1 == [s \in Slots |->
                      IF s = 0 /\ bound0 THEN [st.PvFrames[s] EXCEPT !.Context1 = a0]
                      ELSE IF s = 1 /\ bound1 THEN [st.PvFrames[s] EXCEPT !.Context1 = a1]
                      ELSE st.PvFrames[s]]
        pool1 == IF bound1 THEN Alloc(Alloc(st.pool))
                 ELSE IF bound0 THEN Alloc(st.pool) ELSE st.pool
        queue1 == (IF Passed("queue0", fail) THEN << 0 >> ELSE << >>)
                  \o (IF Passed("queue1", fail) THEN << 1 >> ELSE << >>)
        hw1 == [st.hw EXCEPT
                  !.open = IF opened THEN TRUE ELSE @,
                  !.capturing = IF Passed("PvCaptureStart", fail) THEN TRUE ELSE @,
                  !.queue = @ \o queue1]
        p1 == IF StepNo(fail) >= StepNo("setParams")
              THEN [st.params EXCEPT !["ADSizeX_RBV"] = st.hw.SensorWidth,
                                     !["ADSizeY_RBV"] = st.hw.SensorHeight,
                                     !["PSBadFrameCounter_RBV"] = 0]
              ELSE st.params
        readRan == StepNo(fail) >= StepNo("readParameters")
        p2 == IF readRan THEN readParameters(p1, rd).params ELSE p1
        p3 == IF StepNo(fail) >= StepNo("readStats")
              THEN readStats(p2, fail # "readStats") ELSE p2
    IN [st EXCEPT
          !.PvHandle = IF opened THEN 1 ELSE @,
          !.PvFrames = frames1,
          !.pool = pool1,
          !.hw = hw1,
          !.params = p3,
          !.published = IF readRan THEN callParamCallbacks(p2) ELSE @,
          !.connected = IF fail = "none" THEN TRUE ELSE @,
          !.hwCalled = TRUE,
          !.trace = @ \o ConnectCalls(fail),
          !.status = IF fail = "none" THEN asynSuccess ELSE asynError]

\* The fields of an NDArray that frameCallback sets, before it has set them.
NoHeader ==
    [width |-> 0, height |-> 0, dataType |-> "NDInt8", uniqueId |-> 0]

\* A variant that takes the Bayer formats for the default case.
FrameDataTypeMonoOnly(format) ==
    CASE format = "Mono8"  -> "NDUInt8"
      [] format = "Mono16" -> "NDUInt16"
      [] OTHER             -> "NDUInt32"

\* Lines 234-247: the NDArray data type for the frame's pixel format.
FrameDataType(format) ==
    CASE format \in {"Mono8", "Bayer8"}   -> "NDUInt8"
      [] format \in {"Mono16", "Bayer16"} -> "NDUInt16"
      [] OTHER                            -> "NDUInt32"

\* Lines 231-250: the fields of the frame's NDArray set from the frame f.
HeaderOf(f) ==
    [width |-> f.Width, height |-> f.Height,
     dataType |-> FrameDataType(f.Format), uniqueId |-> f.FrameCount]

\* The object as the constructor's initialiser list leaves it (lines
\* 893-895): no handle, framesRemaining 0, PvFrames not initialised.
Blank ==
    [ PvHandle |-> NULL,
      PvFrames |-> [s \in Slots |-> [Context1 |-> Indeterminate,
                                     Status |-> "ePvErrSuccess",
                                     Width |-> Indeterminate,
                                     Height |-> Indeterminate,
                                     Format |-> "?",
                                     FrameCount |-> Indeterminate]],
      params |-> [n \in ParamNames |-> Unset(n)],
      published |-> [n \in ParamNames |-> Unset(n)],
      connected |-> FALSE,
      hw |-> [open |-> FALSE, capturing |-> FALSE, acquiring |-> FALSE,
              queue |-> << >>, done |-> << >>, cancel |-> {},
              AcquisitionMode |-> "Continuous", AcquisitionFrameCount |-> 1,
              PixelFormat |-> "Mono8", FrameStartTriggerMode |-> "Freerun",
              SensorWidth |-> 640, SensorHeight |-> 480,
              BinningX |-> 1, BinningY |-> 1, RegionX |-> 0, RegionY |-> 0,
              Width |-> 640, Height |-> 480,
              ExposureValue |-> 15000, FrameRate |-> 10000, GainValue |-> 0,
              FrameCount |-> 0, faultsLeft |-> MaxFaults],
      pool |-> [next |-> 1, relCount |-> [i \in ImageIds |-> 0]],
      crashed |-> "none",
      status |-> asynSuccess, hwCalled |-> FALSE, released |-> 0,
      trace |-> << >> ]

\* The failure steps a connect can take from session state st: allocation
\* succeeds only while the pool has blocks, and readParameters fails exactly
\* when what it read makes it return an error.
ConnectFeasible(st, fail, rd) ==
    /\ Passed("alloc0", fail) => st.pool.next <= MaxImages
    /\ Passed("alloc1", fail) => st.pool.next + 1 <= MaxImages
    /\ fail = "readParameters" => readParameters(st.params, rd).status # asynSuccess
    /\ Passed("readParameters", fail) => readParameters(st.params, rd).status = asynSuccess
    /\ StepNo(fail) < StepNo("readParameters") => rd.ok

\* What the camera returns to the readParameters of a connect that fails at
\* `fail`.
ConnectReads(st, fail) ==
    LET h == [st.hw EXCEPT !.open = TRUE]
    IN IF fail = "readParameters"
       THEN {FailedRead} \cup {GoodRead(h)}
       ELSE {GoodRead(h)}

\* Whether the session is connected after the call op that left it as st:
\* after a connectCamera() that returned asynSuccess, and until the next
\* disconnectCamera().
Up(op, st) == op = "connect" /\ st.status = asynSuccess /\ st.crashed = "none"

\* Install the state a connect or disconnect produced.
Commit(st, op, wasOpen) ==
    /\ PvHandle' = st.PvHandle
    /\ PvFrames' = st.PvFrames
    /\ params' = st.params
    /\ published' = st.published
    /\ connected' = st.connected
    /\ hw' = st.hw
    /\ pool' = st.pool
    /\ crashed' = st.crashed
    /\ last' = [op |-> op, status |-> st.status, wasOpen |-> wasOpen,
                hwCalled |-> st.hwCalled, released |-> st.released,
                function |-> "none", value |-> 0, hwWrite |-> FALSE,
                read |-> "none", trace |-> << >>,
                session |-> Up(op, st)]

\* Install the state a connect or disconnect produced and keep, with what
\* the call returned, the calls it made.
CommitTraced(st, op, wasOpen) ==
    /\ PvHandle' = st.PvHandle
    /\ PvFrames' = st.PvFrames
    /\ params' = st.params
    /\ published' = st.published
    /\ connected' = st.connected
    /\ hw' = st.hw
    /\ pool' = st.pool
    /\ crashed' = st.crashed
    /\ last' = [op |-> op, status |-> st.status, wasOpen |-> wasOpen,
                hwCalled |-> st.hwCalled, released |-> st.released,
                function |-> "none", value |-> 0, hwWrite |-> FALSE,
                read |-> "none", trace |-> st.trace,
                session |-> Up(op, st)]

\* Install the state a connect or disconnect produced, with or without the
\* calls it made.
Install(st, op, wasOpen, traced) ==
    IF traced THEN CommitTraced(st, op, wasOpen) ELSE Commit(st, op, wasOpen)

\* ------------------------------------------------------------------------
\* Initial state: the object after its constructor, which ends with a
\* connectCamera() that succeeds or fails at any of its steps
\* ------------------------------------------------------------------------

\* The constructor run on the object b against the camera b.hw.
Constructed(b) ==
    /\ \E i \in 1 .. Len(ConnectSteps) :
         LET fail == ConnectSteps[Len(ConnectSteps) + 1 - i]
         IN \E rd \in ConnectReads(b, fail) :
               LET st == connectBody(b, fail, rd)
               IN /\ ConnectFeasible(b, fail, rd)
                  /\ PvHandle = st.PvHandle
                  /\ PvFrames = st.PvFrames
                  /\ params = st.params
                  /\ published = st.published
                  /\ connected = st.connected
                  /\ hw = st.hw
                  /\ pool = st.pool
                  /\ crashed = st.crashed
                  /\ last = [op |-> "connect", status |-> st.status,
                             wasOpen |-> FALSE, hwCalled |-> TRUE,
                             released |-> 0, function |-> "none",
                             value |-> 0, hwWrite |-> FALSE, read |-> "none",
                             trace |-> << >>, session |-> Up("connect", st)]
    /\ pArrays = NULL
    /\ framesRemaining = 0
    /\ mutexOwner = "none"
    /\ cb = [pc |-> "idle", slot |-> 0, pImage |-> NULL, header |-> NoHeader,
             locks |-> 0, unlocks |-> 0]
    /\ client = [pc |-> "idle", op |-> "none"]
    /\ sink = << >>
    /\ acq = [mode |-> "none", n |-> 0, good |-> 0]
    /\ calls = 0

Init == Constructed(Blank)

\* The same object with the statistics parameters followed as well.
BlankStats ==
    [Blank EXCEPT
       !.params = [n \in ParamNames \cup StatParams |-> Unset(n)],
       !.published = [n \in ParamNames \cup StatParams |-> Unset(n)]]

InitStats == Constructed(BlankStats)

\* ------------------------------------------------------------------------
\* The camera (PvAPI)
\* ------------------------------------------------------------------------

InQueue(h, s) == \E i \in 1 .. Len(h.queue) : h.queue[i] = s

\* PvCaptureQueueFrame(handle, &PvFrames[s], frameCallbackC): the frame joins
\* the capture queue when the handle is an open camera's.
PvCaptureQueueFrame(h, handle, s) ==
    IF handle # NULL /\ h.open /\ ~InQueue(h, s)
    THEN [h EXCEPT !.queue = Append(@, s)]
    ELSE h

\* The camera finishes the frame at the head of the capture queue, with
\* success or with an error status.
HwComplete ==
    /\ crashed = "none"
    /\ hw.open /\ hw.capturing /\ hw.acquiring
    /\ hw.queue # << >>
    /\ \E st \in FrameStatuses \ {"ePvErrCancelled"} :
         /\ st # "ePvErrSuccess" => hw.faultsLeft > 0
         /\ LET s == Head(hw.queue)
            IN /\ PvFrames' = [PvFrames EXCEPT ![s].Status = st,
                                               ![s].Width = hw.Width,
                                               ![s].Height = hw.Height,
                                               ![s].Format = hw.PixelFormat,
                                               ![s].FrameCount = hw.FrameCount + 1]
               /\ hw' = [hw EXCEPT !.queue = Tail(@),
                                   !.done = Append(@, s),
                                   !.FrameCount = @ + 1,
                                   !.faultsLeft = IF st = "ePvErrSuccess" THEN @ ELSE @ - 1]
    /\ UNCHANGED << PvHandle, pArrays, framesRemaining, params, published,
                    connected, mutexOwner, pool, cb, client, sink, crashed,
                    last, acq, calls >>

\* The callback thread takes the next finished frame and calls
\* frameCallbackC on it.
CbStart ==
    /\ crashed = "none"
    /\ cb.pc = "idle"
    /\ hw.done # << >>
    /\ cb' = [pc |-> "entry", slot |-> Head(hw.done), pImage |-> NULL,
              header |-> NoHeader,
              locks |-> 0, unlocks |-> 0]
    /\ hw' = [hw EXCEPT !.done = Tail(@)]
    /\ UNCHANGED << PvHandle, PvFrames, pArrays, framesRemaining, params,
                    published, connected, mutexOwner, pool, client, sink,
                    crashed, last, acq, calls >>

\* PvCaptureQueueClear hands a frame it removed from the queue back through
\* the callback, with status ePvErrCancelled, on the callback thread.
CbStartCancelled ==
    /\ crashed = "none"
    /\ cb.pc = "idle"
    /\ \E s \in hw.cancel :
         /\ PvFrames' = [PvFrames EXCEPT ![s].Status = "ePvErrCancelled"]
         /\ hw' = [hw EXCEPT !.cancel = @ \ {s}]
         /\ cb' = [pc |-> "entry", slot |-> s, pImage |-> NULL,
                   header |-> NoHeader,
                   locks |-> 0, unlocks |-> 0]
    /\ UNCHANGED << PvHandle, pArrays, framesRemaining, params, published,
                    connected, mutexOwner, pool, client, sink, crashed,
                    last, acq, calls >>

\* ------------------------------------------------------------------------
\* frameCallback, on the callback thread
\* ------------------------------------------------------------------------

\* frameCallback without the test of line 218: every frame, cancelled or
\* not, goes on to epicsMutexLock.
CbEntryLocksCancelled ==
    /\ crashed = "none"
    /\ cb.pc = "entry"
    /\ cb' = [cb EXCEPT !.pc = "lock"]
    /\ UNCHANGED << PvHandle, PvFrames, pArrays, framesRemaining, params,
                    published, connected, mutexOwner, hw, pool, client, sink,
                    crashed, last, acq, calls >>

\* Line 218: a cancelled frame returns at once; any other goes on to
\* epicsMutexLock.
CbEntry ==
    /\ crashed = "none"
    /\ cb.pc = "entry"
    /\ cb' = [cb EXCEPT !.pc = IF PvFrames[cb.slot].Status = "ePvErrCancelled"
                                THEN "idle" ELSE "lock"]
    /\ UNCHANGED << PvHandle, PvFrames, pArrays, framesRemaining, params,
                    published, connected, mutexOwner, hw, pool, client, sink,
                    crashed, last, acq, calls >>

\* Line 220: epicsMutexLock returns once the mutex is free.
CbLock ==
    /\ crashed = "none"
    /\ cb.pc = "lock"
    /\ mutexOwner = "none"
    /\ mutexOwner' = "cb"
    /\ cb' = [cb EXCEPT !.pc = "body1", !.locks = @ + 1]
    /\ UNCHANGED << PvHandle, PvFrames, pArrays, framesRemaining, params,
                    published, connected, hw, pool, client, sink, crashed,
                    last, acq, calls >>

\* The good-frame path without the epicsMutexUnlock of line 259: the NDArray
\* callback is made with the mutex held.
CbGoodFrameKeepsMutex ==
    LET pImage == PvFrames[cb.slot].Context1
    IN /\ pool' = IF pArrays # NULL THEN Release(pool, pArrays) ELSE pool
       /\ pArrays' = pImage
       /\ IF pImage = NULL
          THEN /\ crashed' = "frameCallback"
               /\ UNCHANGED cb
          ELSE /\ cb' = [cb EXCEPT !.pc = "sink", !.pImage = pImage,
                                   !.header = HeaderOf(PvFrames[cb.slot])]
               /\ UNCHANGED crashed
       /\ UNCHANGED << PvHandle, PvFrames, framesRemaining, params, published,
                       connected, mutexOwner, hw, client, sink, last, acq, calls >>

\* Lines 222-259 for a good frame: the previous image is released, the
\* frame's image becomes pArrays[0] and the mutex is given up for the
\* NDArray callback.  A frame whose Context[1] is NULL is dereferenced at
\* line 231.
CbGoodFrame ==
    LET pImage == PvFrames[cb.slot].Context1
    IN /\ pool' = IF pArrays # NULL THEN Release(pool, pArrays) ELSE pool
       /\ pArrays' = pImage
       /\ IF pImage = NULL
          THEN /\ crashed' = "frameCallback"
               /\ UNCHANGED << mutexOwner, cb >>
          ELSE /\ mutexOwner' = "none"
               /\ cb' = [cb EXCEPT !.pc = "sink", !.pImage = pImage,
                                   !.header = HeaderOf(PvFrames[cb.slot]),
                                   !.unlocks = @ + 1]
               /\ UNCHANGED crashed
       /\ UNCHANGED << PvHandle, PvFrames, framesRemaining, params, published,
                       connected, hw, client, sink, last, acq, calls >>

\* A variant in which a frame with an error status also counts as one of the
\* frames the acquisition was waiting for.
CbBadFrameCounted ==
    LET fr == IF framesRemaining > 0 THEN framesRemaining - 1 ELSE framesRemaining
        p1 == [params EXCEPT !["PSBadFrameCounter_RBV"] = @ + 1,
                             !["ADStatus_RBV"] =
                                 IF fr = 0 THEN ADStatusIdle ELSE @]
    IN /\ params' = p1
       /\ published' = p1
       /\ framesRemaining' = fr
       /\ hw' = [hw EXCEPT !.queue =
                     IF PvHandle # NULL /\ hw.open
                        /\ \A i \in 1 .. Len(hw.queue) : hw.queue[i] # cb.slot
                     THEN Append(@, cb.slot) ELSE @]
       /\ mutexOwner' = "none"
       /\ cb' = [cb EXCEPT !.pc = "idle", !.unlocks = @ + 1]
       /\ UNCHANGED << PvHandle, PvFrames, pArrays, connected,
                       pool, client, sink, crashed, last, acq, calls >>

\* A variant that counts a frame with an error status and does not queue it
\* again.
CbBadFrameDropped ==
    LET p1 == [params EXCEPT !["PSBadFrameCounter_RBV"] = @ + 1]
    IN /\ params' = p1
       /\ published' = callParamCallbacks(p1)
       /\ mutexOwner' = "none"
       /\ cb' = [cb EXCEPT !.pc = "idle", !.unlocks = @ + 1]
       /\ UNCHANGED << PvHandle, PvFrames, pArrays, framesRemaining, connected,
                       hw, pool, client, sink, crashed, last, acq, calls >>

\* A variant that counts a frame with an error status as an image as well.
CbBadFrameCountsImage ==
    LET p1 == [params EXCEPT !["PSBadFrameCounter_RBV"] = @ + 1,
                             !["ADImageCounter"] = @ + 1,
                             !["ADImageCounter_RBV"] = params["ADImageCounter"] + 1]
    IN /\ params' = p1
       /\ published' = callParamCallbacks(p1)
       /\ hw' = PvCaptureQueueFrame(hw, PvHandle, cb.slot)
       /\ mutexOwner' = "none"
       /\ cb' = [cb EXCEPT !.pc = "idle", !.unlocks = @ + 1]
       /\ UNCHANGED << PvHandle, PvFrames, pArrays, framesRemaining, connected,
                       pool, client, sink, crashed, last, acq, calls >>

\* Lines 295-309 for a frame with an error status: the bad-frame counter is
\* counted up and published, the frame queued again, the mutex released.
CbBadFrame ==
    LET p1 == [params EXCEPT !["PSBadFrameCounter_RBV"] = @ + 1]
    IN /\ params' = p1
       /\ published' = callParamCallbacks(p1)
       /\ hw' = PvCaptureQueueFrame(hw, PvHandle, cb.slot)
       /\ mutexOwner' = "none"
       /\ cb' = [cb EXCEPT !.pc = "idle", !.unlocks = @ + 1]
       /\ UNCHANGED << PvHandle, PvFrames, pArrays, framesRemaining, connected,
                       pool, client, sink, crashed, last, acq, calls >>

\* Lines 222-259 and 295-309, holding the mutex.
CbBody1 ==
    /\ crashed = "none"
    /\ cb.pc = "body1"
    /\ IF PvFrames[cb.slot].Status = "ePvErrSuccess"
       THEN CbGoodFrame ELSE CbBadFrame

\* Line 228 alone, for a good frame: the image that is current is released;
\* pArrays[0] still points to it.
CbRelease ==
    /\ crashed = "none"
    /\ cb.pc = "body1"
    /\ PvFrames[cb.slot].Status = "ePvErrSuccess"
    /\ pool' = IF pArrays # NULL THEN Release(pool, pArrays) ELSE pool
    /\ cb' = [cb EXCEPT !.pc = "install"]
    /\ UNCHANGED << PvHandle, PvFrames, pArrays, framesRemaining, params,
                    published, connected, mutexOwner, hw, client, sink,
                    crashed, last, acq, calls >>

\* Lines 229-259 for a good frame, line 228 done: the frame's image becomes
\* pArrays[0], its header is set and the mutex is given up for the NDArray
\* callback.
CbInstall ==
    /\ crashed = "none"
    /\ cb.pc = "install"
    /\ LET pImage == PvFrames[cb.slot].Context1
       IN /\ pArrays' = pImage
          /\ IF pImage = NULL
             THEN /\ crashed' = "frameCallback"
                  /\ UNCHANGED << mutexOwner, cb >>
             ELSE /\ mutexOwner' = "none"
                  /\ cb' = [cb EXCEPT !.pc = "sink", !.pImage = pImage,
                                      !.header = HeaderOf(PvFrames[cb.slot]),
                                      !.unlocks = @ + 1]
                  /\ UNCHANGED crashed
    /\ UNCHANGED << PvHandle, PvFrames, framesRemaining, params, published,
                    connected, hw, pool, client, sink, last, acq, calls >>

\* Lines 295-309 as a step of their own: the callback of a frame with an
\* error status.
CbBody1Bad ==
    /\ crashed = "none"
    /\ cb.pc = "body1"
    /\ PvFrames[cb.slot].Status # "ePvErrSuccess"
    /\ CbBadFrame

\* Line 260: doCallbacksHandle(pImage, NDArrayData, 0).
CbSink ==
    /\ crashed = "none"
    /\ cb.pc = "sink"
    /\ sink' = Append(sink, cb.pImage)
    /\ cb' = [cb EXCEPT !.pc = "relock"]
    /\ UNCHANGED << PvHandle, PvFrames, pArrays, framesRemaining, params,
                    published, connected, mutexOwner, hw, pool, client,
                    crashed, last, acq, calls >>

\* Line 261: epicsMutexLock after the NDArray callback.
CbRelock ==
    /\ crashed = "none"
    /\ cb.pc = "relock"
    /\ mutexOwner = "none"
    /\ mutexOwner' = "cb"
    /\ cb' = [cb EXCEPT !.pc = "body2", !.locks = @ + 1]
    /\ UNCHANGED << PvHandle, PvFrames, pArrays, framesRemaining, params,
                    published, connected, hw, pool, client, sink, crashed,
                    last, acq, calls >>

\* A count that stops at one instead of zero.
CountDownAboveOne(fr) == IF fr > 1 THEN fr - 1 ELSE fr

\* An end of acquisition taken for every count that is not positive.
AcquireDoneNonPositive(p, fr) ==
    IF fr <= 0
    THEN [p EXCEPT !["ADAcquire"] = 0, !["ADAcquire_RBV"] = 0,
                   !["ADStatus_RBV"] = ADStatusIdle]
    ELSE p

\* An end of acquisition that, while frames are still expected, puts the
\* status back to Acquiring.
AcquireDoneElseAcquiring(p, fr) ==
    IF fr = 0
    THEN [p EXCEPT !["ADAcquire"] = 0, !["ADAcquire_RBV"] = 0,
                   !["ADStatus_RBV"] = ADStatusIdle]
    ELSE [p EXCEPT !["ADStatus_RBV"] = ADStatusAcquire]

\* Lines 264-269: the count of frames still expected, and the parameters
\* set when it reaches zero.
CountDown(fr) == IF fr > 0 THEN fr - 1 ELSE fr

AcquireDone(p, fr) ==
    IF fr = 0
    THEN [p EXCEPT !["ADAcquire"] = 0, !["ADAcquire_RBV"] = 0,
                   !["ADStatus_RBV"] = ADStatusIdle]
    ELSE p

\* The outcomes of lines 278-279: no writeFile() when ADAutoSave is 0,
\* otherwise a writeFile() that writes the file or fails.
AutoSaveOutcomes(p, image) ==
    IF p["ADAutoSave"] = 0 THEN {"off"}
    ELSE IF image = NULL THEN {"failed"}
    ELSE {"written", "failed"}

\* Lines 137-193, writeFile(): the current image is written to a file, whose
\* name (here the image written) becomes ADFullFileName_RBV; a failure
\* leaves the library as it is.
writeFile(p, image, saved) ==
    IF saved = "written" THEN [p EXCEPT !["ADFullFileName_RBV"] = image] ELSE p

\* Lines 263-309 for a good frame, holding the mutex again: count the frame,
\* save it if asked to, give the slot a fresh image, publish, queue the
\* slot, release the mutex.
CbBody2 ==
    /\ crashed = "none"
    /\ cb.pc = "body2"
    /\ pool.next <= MaxImages
    /\ \E saved \in AutoSaveOutcomes(params, pArrays) :
        LET fr == CountDown(framesRemaining)
            p1 == AcquireDone(params, fr)
            p2 == [p1 EXCEPT !["ADImageCounter"] = @ + 1,
                             !["ADImageCounter_RBV"] = p1["ADImageCounter"] + 1]
            p3 == writeFile(p2, pArrays, saved)
        IN
          /\ framesRemaining' = fr
          /\ params' = p3
          /\ published' = callParamCallbacks(p3)
          /\ PvFrames' = [PvFrames EXCEPT ![cb.slot].Context1 = pool.next]
          /\ pool' = Alloc(pool)
          /\ hw' = PvCaptureQueueFrame(hw, PvHandle, cb.slot)
          /\ mutexOwner' = "none"
          /\ cb' = [cb EXCEPT !.pc = "idle", !.unlocks = @ + 1]
          /\ acq' = IF acq.mode = "none" THEN acq ELSE [acq EXCEPT !.good = @ + 1]
    /\ UNCHANGED << PvHandle, pArrays, connected, client, sink, crashed, last,
                    calls >>

\* ------------------------------------------------------------------------
\* Client operations, each run by a client thread that holds the mutex
\* ------------------------------------------------------------------------

\* Line 496: PvCaptureQueueClear takes every queued frame out of the queue
\* and does not return before each has been through the callback.
PvCaptureQueueClear(h) ==
    [h EXCEPT !.queue = << >>,
              !.cancel = {h.queue[i] : i \in 1 .. Len(h.queue)}]

\* disconnectCamera() without the test of line 495: it enters
\* PvCaptureQueueClear whether or not there is a handle.
ClientDisconnectNoHandleTest ==
    /\ crashed = "none"
    /\ client.pc = "idle"
    /\ mutexOwner = "none"
    /\ mutexOwner' = "client"
    /\ hw' = PvCaptureQueueClear(hw)
    /\ client' = [pc |-> "clear", op |-> "disconnect"]
    /\ calls < MaxCalls
    /\ calls' = calls + 1
    /\ UNCHANGED << PvHandle, PvFrames, pArrays, framesRemaining, params,
                    published, connected, pool, cb, sink, crashed, last, acq >>

\* A client calls disconnectCamera().  With no handle it returns at line
\* 495; otherwise it enters PvCaptureQueueClear.
ClientDisconnect ==
    /\ crashed = "none"
    /\ client.pc = "idle"
    /\ mutexOwner = "none"
    /\ calls < MaxCalls
    /\ IF PvHandle = NULL
       THEN /\ last' = [op |-> "disconnect", status |-> asynSuccess,
                        wasOpen |-> FALSE, hwCalled |-> FALSE, released |-> 0,
                        function |-> "none", value |-> 0, hwWrite |-> FALSE,
                        read |-> "none", trace |-> << >>, session |-> FALSE]
            /\ client' = [pc |-> "idle", op |-> "disconnect"]
            /\ UNCHANGED << mutexOwner, hw >>
       ELSE /\ mutexOwner' = "client"
            /\ hw' = PvCaptureQueueClear(hw)
            /\ client' = [pc |-> "clear", op |-> "disconnect"]
            /\ UNCHANGED last
    /\ calls' = calls + 1
    /\ UNCHANGED << PvHandle, PvFrames, pArrays, framesRemaining, params,
                    published, connected, pool, cb, sink, crashed, acq >>

\* A client calls connectCamera().  Its leading disconnectCamera() returns
\* at once when there is no handle, and the rest of connect follows, failing
\* at some step or at none; otherwise it enters PvCaptureQueueClear.
\* traced: the calls made are kept in `last`.
ConnectWith(traced) ==
    /\ crashed = "none"
    /\ client.pc = "idle"
    /\ mutexOwner = "none"
    /\ calls < MaxCalls
    /\ IF PvHandle = NULL
       THEN /\ \E i \in 1 .. Len(ConnectSteps) :
                 LET fail == ConnectSteps[i]
                 IN \E rd \in ConnectReads(Cur, fail) :
                      /\ ConnectFeasible(Cur, fail, rd)
                      /\ \E st \in {connectBody(Cur, fail, rd)} :
                           Install(st, "connect", FALSE, traced)
            /\ client' = [pc |-> "idle", op |-> "connect"]
            /\ UNCHANGED mutexOwner
       ELSE /\ mutexOwner' = "client"
            /\ hw' = PvCaptureQueueClear(hw)
            /\ client' = [pc |-> "clear", op |-> "connect"]
            /\ UNCHANGED << PvHandle, PvFrames, params, published,
                            connected, pool, crashed, last >>
    /\ calls' = calls + 1
    /\ UNCHANGED << pArrays, framesRemaining, cb, sink, acq >>

\* connectCamera(), entered by a client.
ClientConnect == ConnectWith(FALSE)

\* PvCaptureQueueClear has returned: every cancelled frame has been through
\* the callback.
QueueCleared ==
    /\ hw.cancel = {}
    /\ ~(cb.pc = "entry" /\ PvFrames[cb.slot].Status = "ePvErrCancelled")

\* disconnectCamera() runs on from line 497 and returns; a connectCamera()
\* that called it runs on from line 535, failing at some step or at none.
TeardownWith(traced) ==
    /\ crashed = "none"
    /\ client.pc = "clear"
    /\ QueueCleared
    /\ \E closeOk \in BOOLEAN, overrun \in {"crash", "return"} :
         /\ ~closeOk => hw.faultsLeft > 0
         /\ \E st \in {disconnectTeardown(Cur, closeOk, overrun)} :
               IF client.op = "disconnect" \/ st.crashed # "none"
               THEN Install(st, client.op, TRUE, traced)
               ELSE \E i \in 1 .. Len(ConnectSteps) :
                       LET fail == ConnectSteps[i]
                       IN \E rd \in ConnectReads(st, fail) :
                            /\ ConnectFeasible(st, fail, rd)
                            /\ \E st2 \in {connectBody(st, fail, rd)} :
                                 Install(st2, "connect", TRUE, traced)
    /\ mutexOwner' = IF crashed' = "none" THEN "none" ELSE mutexOwner
    /\ client' = IF crashed' = "none" THEN [client EXCEPT !.pc = "idle"] ELSE client
    /\ UNCHANGED << pArrays, framesRemaining, cb, sink, acq, calls >>

\* The rest of a disconnectCamera() or connectCamera() that had a handle.
ClientTeardown == TeardownWith(FALSE)

\* The AcquisitionMode name writeInt32 sends for an ADImageMode value.
AcquisitionModeOf(value) ==
    CASE value = ADImageSingle     -> "SingleFrame"
      [] value = ADImageMultiple   -> "MultiFrame"
      [] value = ADImageContinuous -> "Continuous"
      [] OTHER                     -> "?"

\* A count of one frame for multiple mode as for single mode.
FramesForOneInMultiple(imageMode, numImages, old) ==
    CASE imageMode = ADImageSingle     -> 1
      [] imageMode = ADImageMultiple   -> 1
      [] imageMode = ADImageContinuous -> -1
      [] OTHER                         -> old

\* Lines 707-717: framesRemaining for an acquisition started in imageMode.
FramesFor(imageMode, numImages, old) ==
    CASE imageMode = ADImageSingle     -> 1
      [] imageMode = ADImageMultiple   -> numImages
      [] imageMode = ADImageContinuous -> -1
      [] OTHER                         -> old

AcqModeName(imageMode) ==
    CASE imageMode = ADImageSingle     -> "single"
      [] imageMode = ADImageMultiple   -> "multiple"
      [] imageMode = ADImageContinuous -> "continuous"
      [] OTHER                         -> "other"

\* A variant that sends the origin and the size without dividing them by
\* the binning.
setGeometryUnbinned(p, h) ==
    [h EXCEPT !.BinningX = IF p["ADBinX"] < 1 THEN 1 ELSE p["ADBinX"],
              !.BinningY = IF p["ADBinY"] < 1 THEN 1 ELSE p["ADBinY"],
              !.RegionX = p["ADMinX"],
              !.RegionY = p["ADMinY"],
              !.Width = p["ADSizeX"],
              !.Height = p["ADSizeY"]]

\* Lines 312-333, setGeometry(): the six attribute writes made from the
\* geometry parameters of the library.
setGeometry(p, h) ==
    LET binX == IF p["ADBinX"] < 1 THEN 1 ELSE p["ADBinX"]
        binY == IF p["ADBinY"] < 1 THEN 1 ELSE p["ADBinY"]
    IN [h EXCEPT !.BinningX = binX,
                 !.BinningY = binY,
                 !.RegionX = p["ADMinX"] \div binX,
                 !.RegionY = p["ADMinY"] \div binY,
                 !.Width = p["ADSizeX"] \div binX,
                 !.Height = p["ADSizeY"] \div binY]

\* A variant that brings an index outside the table to its nearest entry.
TriggerNameClamped(value) ==
    IF value < 0 THEN PSTriggerStartStrings[1]
    ELSE IF value > NUM_START_TRIGGER_MODES - 1
         THEN PSTriggerStartStrings[NUM_START_TRIGGER_MODES]
         ELSE PSTriggerStartStrings[value + 1]

\* Lines 725-731: the FrameStartTriggerMode written for a requested index;
\* "?" for an index outside the table, for which none is written.
TriggerNameFor(value) ==
    IF (value < 0) \/ (value > NUM_START_TRIGGER_MODES - 1) THEN "?"
    ELSE PSTriggerStartStrings[value + 1]

\* A variant that sends "Mono16" for every data type that is not 8-bit.
PixelFormatForAny(value) ==
    IF value \in {"NDInt8", "NDUInt8"} THEN "Mono8" ELSE "Mono16"

\* Lines 739-757: the PixelFormat written for a requested data type; "?"
\* for the default branch, which writes none.
PixelFormatFor(value) ==
    CASE value \in {"NDInt8", "NDUInt8"}   -> "Mono8"
      [] value \in {"NDInt16", "NDUInt16"} -> "Mono16"
      [] OTHER                             -> "?"

\* A variant that rounds to the nearest microsecond.
ExposureValueRounded(value) == (value + 500) \div 1000

\* Line 788: ADAcquireTime, in nanoseconds, as whole microseconds.
ExposureValueFor(value) == value \div 1000

\* Lines 793-794: ADAcquirePeriod, in milliseconds, as a FrameRate in
\* thousandths of a hertz; a period of 0 is taken as 0.01 s.
FrameRateFor(value) ==
    LET period == IF value = 0 THEN 10 ELSE value
    IN 1000000 \div period

\* Line 799: ADGain, in tenths, as a whole number.
GainValueFor(value) == value \div 10

\* The switch of writeInt32 (lines 671-757) and of writeFloat64 (lines
\* 785-804) on a camera that accepts what it is sent.  calls: a PvAPI call
\* is made; rejected: the handler itself sets an error status; hw: the
\* camera after the call.  p0 is the library after lines 668-669.
Dispatch(function, value, p0, h) ==
    LET made(h1) == [calls |-> TRUE, rejected |-> FALSE, hw |-> h1]
        nothing == [calls |-> FALSE, rejected |-> FALSE, hw |-> h]
        refused == [calls |-> FALSE, rejected |-> TRUE, hw |-> h]
    IN CASE function \in GeometryParams -> made(setGeometry(p0, h))
         [] function = "ADNumImages" ->
              made([h EXCEPT !.AcquisitionFrameCount = value])
         [] function = "ADImageMode" ->
              IF AcquisitionModeOf(value) = "?" THEN nothing
              ELSE made([h EXCEPT !.AcquisitionMode = AcquisitionModeOf(value)])
         [] function = "ADAcquire" ->
              made([h EXCEPT !.acquiring = (value # 0)])
         [] function = "ADTriggerMode" ->
              IF TriggerNameFor(value) = "?" THEN refused
              ELSE made([h EXCEPT !.FrameStartTriggerMode = TriggerNameFor(value)])
         [] function = "ADDataType" ->
              IF PixelFormatFor(value) = "?" THEN refused
              ELSE made([h EXCEPT !.PixelFormat = PixelFormatFor(value)])
         [] function = "ADAcquireTime" ->
              made([h EXCEPT !.ExposureValue = ExposureValueFor(value)])
         [] function = "ADAcquirePeriod" ->
              made([h EXCEPT !.FrameRate = FrameRateFor(value)])
         [] function = "ADGain" ->
              made([h EXCEPT !.GainValue = GainValueFor(value)])
         [] function = "ADAutoSave" -> nothing

\* One call of writeInt32 or writeFloat64 on the session s, as a function:
\* the parameter and its readback are set (lines 668-669, 782-783), the
\* command is dispatched (wOk: the camera accepts the call made),
\* readParameters refreshes the readbacks from the camera (readOk: the
\* camera answers) and publishes the library (lines 760, 807).
writeParam(s, function, value, wOk, readOk) ==
    LET alive == s.PvHandle # NULL /\ s.hw.open
        p0 == [s.params EXCEPT ![function] = value, ![RBV(function)] = value]
        starting == function = "ADAcquire" /\ value # 0
        stopping == function = "ADAcquire" /\ value = 0
        p1 == IF starting THEN [p0 EXCEPT !["ADStatus_RBV"] = ADStatusAcquire]
              ELSE IF stopping THEN [p0 EXCEPT !["ADStatus_RBV"] = ADStatusIdle]
              ELSE p0
        d == Dispatch(function, value, p0, s.hw)
        hw1 == IF ~d.calls THEN s.hw
               ELSE IF alive /\ wOk THEN d.hw
               ELSE Fault(s.hw, alive)
        rd == IF readOk THEN GoodRead(hw1) ELSE FailedRead
        r == readParameters(p1, rd)
        dispatched == ~d.rejected /\ (d.calls => alive /\ wOk)
    IN [ PvHandle |-> s.PvHandle,
         hw |-> Fault(hw1, alive /\ ~readOk),
         params |-> r.params,
         published |-> callParamCallbacks(r.params),
         framesRemaining |->
             IF starting
             THEN FramesFor(p0["ADImageMode"], p0["ADNumImages"], s.framesRemaining)
             ELSE s.framesRemaining,
         acq |-> IF starting
                 THEN [mode |-> AcqModeName(p0["ADImageMode"]),
                       n |-> p0["ADNumImages"], good |-> 0]
                 ELSE IF stopping THEN [mode |-> "none", n |-> 0, good |-> 0]
                 ELSE s.acq,
         status |-> IF dispatched /\ r.status = asynSuccess
                    THEN asynSuccess ELSE asynError,
         hwWrite |-> d.calls /\ alive /\ wOk,
         read |-> IF readOk THEN "ok" ELSE "failed" ]

\* The outcomes the camera can give a write: a call fails only if one is
\* made on an open camera, a read succeeds only on an open camera, and each
\* failure of an open camera is one of the run's faults.
WriteFeasible(s, function, value, wOk, readOk) ==
    LET alive == s.PvHandle # NULL /\ s.hw.open
        p0 == [s.params EXCEPT ![function] = value, ![RBV(function)] = value]
        d == Dispatch(function, value, p0, s.hw)
        faults == (IF ~wOk THEN 1 ELSE 0) + (IF alive /\ ~readOk THEN 1 ELSE 0)
    IN /\ ~wOk => d.calls /\ alive
       /\ readOk => alive
       /\ faults <= s.hw.faultsLeft

\* The session as a write handler sees it.
Session ==
    [ PvHandle |-> PvHandle, hw |-> hw, params |-> params,
      framesRemaining |-> framesRemaining, acq |-> acq ]

\* The body of writeInt32 or writeFloat64 (op), from the store of the
\* parameter to the return of readParameters, run on the session as it is.
WriteBody(op, function, value) ==
    /\ \E wOk \in BOOLEAN, readOk \in BOOLEAN :
         /\ WriteFeasible(Session, function, value, wOk, readOk)
         /\ \E w \in {writeParam(Session, function, value, wOk, readOk)} :
               /\ hw' = w.hw
               /\ params' = w.params
               /\ published' = w.published
               /\ framesRemaining' = w.framesRemaining
               /\ acq' = w.acq
               /\ last' = [op |-> op, status |-> w.status,
                           wasOpen |-> PvHandle # NULL,
                           hwCalled |-> TRUE, released |-> 0,
                           function |-> function, value |-> value,
                           hwWrite |-> w.hwWrite, read |-> w.read,
                           trace |-> << >>, session |-> last.session]

\* A client calls writeInt32 or writeFloat64 (op) under the mutex, and the
\* call returns.
Write(op, function, value) ==
    /\ crashed = "none"
    /\ client.pc = "idle"
    /\ mutexOwner = "none"
    /\ calls < MaxCalls
    /\ WriteBody(op, function, value)
    /\ client' = [pc |-> "idle", op |-> op]
    /\ calls' = calls + 1
    /\ UNCHANGED << PvHandle, PvFrames, pArrays, connected, mutexOwner, pool,
                    cb, sink, crashed >>

\* writeInt32(pasynUser, value) with pasynUser->reason = function.
WriteInt32(function, value) == Write("writeInt32", function, value)

\* writeFloat64(pasynUser, value) with pasynUser->reason = function.
WriteFloat64(function, value) == Write("writeFloat64", function, value)

ClientAcquire == \E value \in {0, 1} : WriteInt32("ADAcquire", value)

ClientImageMode ==
    \E value \in {ADImageSingle, ADImageMultiple, ADImageContinuous} :
        WriteInt32("ADImageMode", value)

ClientNumImages ==
    \E value \in 1 .. MaxNumImages : WriteInt32("ADNumImages", value)

\* Image counts clients write: counts of frames, none, and a negative one.
\* Whether the camera takes the count or refuses it, line 668 has stored it.
NumImagesValues == {-1, 0} \cup (1 .. MaxNumImages)

ClientNumImagesAny ==
    \E value \in NumImagesValues : WriteInt32("ADNumImages", value)

\* Trigger-mode indices clients write: the ends of the table and values
\* outside it.
TriggerModeValues == {-1, 0, 6, 7, 99}

ClientTriggerMode ==
    \E value \in TriggerModeValues : WriteInt32("ADTriggerMode", value)

ClientDataType ==
    \E value \in NDDataTypes : WriteInt32("ADDataType", value)

\* A client writes any of the seven trigger modes.
ClientTriggerModeInTable ==
    \E value \in 0 .. (NUM_START_TRIGGER_MODES - 1) :
        WriteInt32("ADTriggerMode", value)

\* Values clients write to the geometry parameters: binning factors (0 is
\* below the smallest the driver sends), origins and sizes.
GeometryValues(function) ==
    CASE function \in {"ADBinX", "ADBinY"}   -> {0, 2, 3}
      [] function \in {"ADMinX", "ADMinY"}   -> {10, 20}
      [] function \in {"ADSizeX", "ADSizeY"} -> {100, 200}

ClientGeometry ==
    \E function \in GeometryParams :
        \E value \in GeometryValues(function) : WriteInt32(function, value)

\* A batch that divides by binning factors of at least 1 and sends the
\* factors as they are in the library.
GeometryCallsRawBin(p) ==
    LET binX == IF p["ADBinX"] < 1 THEN 1 ELSE p["ADBinX"]
        binY == IF p["ADBinY"] < 1 THEN 1 ELSE p["ADBinY"]
    IN << [attr |-> "BinningX", value |-> p["ADBinX"]],
          [attr |-> "BinningY", value |-> p["ADBinY"]],
          [attr |-> "RegionX",  value |-> p["ADMinX"] \div binX],
          [attr |-> "RegionY",  value |-> p["ADMinY"] \div binY],
          [attr |-> "Width",    value |-> p["ADSizeX"] \div binX],
          [attr |-> "Height",   value |-> p["ADSizeY"] \div binY] >>

\* Lines 320-334: the six PvAttrUint32Set calls of setGeometry(), each with
\* the attribute and the value it sends, in program order.
GeometryCalls(p) ==
    LET binX == IF p["ADBinX"] < 1 THEN 1 ELSE p["ADBinX"]
        binY == IF p["ADBinY"] < 1 THEN 1 ELSE p["ADBinY"]
    IN << [attr |-> "BinningX", value |-> binX],
          [attr |-> "BinningY", value |-> binY],
          [attr |-> "RegionX",  value |-> p["ADMinX"] \div binX],
          [attr |-> "RegionY",  value |-> p["ADMinY"] \div binY],
          [attr |-> "Width",    value |-> p["ADSizeX"] \div binX],
          [attr |-> "Height",   value |-> p["ADSizeY"] \div binY] >>

\* One PvAttrUint32Set: the camera takes the value unless the call fails.
PvAttrUint32Set(h, c, ok) == IF ok THEN [h EXCEPT ![c.attr] = c.value] ELSE h

RECURSIVE IssueAbort(_, _, _, _)
\* A batch that returns at the first call that fails.
IssueAbort(st, cs, failed, i) ==
    IF i > Len(cs) THEN st
    ELSE LET ok == i \notin failed
             nx == [hw |-> PvAttrUint32Set(st.hw, cs[i], ok),
                    trace |-> Append(st.trace, [attr |-> cs[i].attr,
                                                value |-> cs[i].value,
                                                ok |-> ok]),
                    status |-> IF ok THEN st.status ELSE asynError]
         IN IF ok THEN IssueAbort(nx, cs, failed, i + 1) ELSE nx

RECURSIVE Issue(_, _, _, _)
\* Lines 329-334: the calls cs from the i-th on, one after the other; those
\* whose place is in `failed` fail.  Each status is OR-ed into the status
\* returned and the next call is made whatever it was.
Issue(st, cs, failed, i) ==
    IF i > Len(cs) THEN st
    ELSE LET ok == i \notin failed
         IN Issue([hw |-> PvAttrUint32Set(st.hw, cs[i], ok),
                   trace |-> Append(st.trace, [attr |-> cs[i].attr,
                                               value |-> cs[i].value,
                                               ok |-> ok]),
                   status |-> IF ok THEN st.status ELSE asynError],
                  cs, failed, i + 1)

\* A writeInt32 of a geometry parameter on the session s, call by call:
\* lines 668-669, setGeometry() with its six calls (without a camera every
\* call fails), readParameters and its callParamCallbacks.
writeGeometry(s, function, value, failed, readOk) ==
    LET alive == s.PvHandle # NULL /\ s.hw.open
        p0 == [s.params EXCEPT ![function] = value, ![RBV(function)] = value]
        g == Issue([hw |-> s.hw, trace |-> << >>, status |-> asynSuccess],
                   GeometryCalls(p0), failed, 1)
        hw1 == IF alive
               THEN [g.hw EXCEPT !.faultsLeft = @ - Cardinality(failed)]
               ELSE g.hw
        rd == IF readOk THEN GoodRead(hw1) ELSE FailedRead
        r == readParameters(p0, rd)
    IN [ hw |-> Fault(hw1, alive /\ ~readOk),
         params |-> r.params,
         published |-> callParamCallbacks(r.params),
         status |-> IF g.status = asynSuccess /\ r.status = asynSuccess
                    THEN asynSuccess ELSE asynError,
         hwWrite |-> failed = {},
         trace |-> g.trace,
         read |-> IF readOk THEN "ok" ELSE "failed" ]

\* The places in the batch at which a call can fail.
BatchPlaces == 1 .. 6

\* Values clients write to the geometry parameters while the batch is
\* taken call by call: binning factors (0 and -1 are below the smallest the
\* driver sends), an origin and a size.
BatchValues(function) ==
    CASE function = "ADBinX"                 -> {0, 2}
      [] function = "ADBinY"                 -> {-1, 3}
      [] function \in {"ADMinX", "ADMinY"}   -> {10}
      [] function \in {"ADSizeX", "ADSizeY"} -> {200}

\* The calls of a batch that can fail: on an open camera as many as it has
\* faults left to give, without one all of them.
BatchFailures(handle, h) ==
    IF handle # NULL /\ h.open
    THEN {f \in SUBSET BatchPlaces : Cardinality(f) <= h.faultsLeft}
    ELSE {BatchPlaces}

\* A client writes a geometry parameter, and the camera fails any of the
\* six calls of the batch.
ClientGeometryBatch ==
    /\ crashed = "none"
    /\ client.pc = "idle"
    /\ mutexOwner = "none"
    /\ calls < MaxCalls
    /\ \E failed \in BatchFailures(PvHandle, hw), readOk \in BOOLEAN :
         /\ readOk => PvHandle # NULL /\ hw.open
         /\ Cardinality(failed) + (IF readOk THEN 0 ELSE 1) <= hw.faultsLeft
            \/ ~(PvHandle # NULL /\ hw.open)
         /\ \E function \in GeometryParams :
              \E value \in BatchValues(function) :
               \E w \in {writeGeometry(Session, function, value, failed, readOk)} :
                     /\ hw' = w.hw
                     /\ params' = w.params
                     /\ published' = w.published
                     /\ last' = [op |-> "writeInt32", status |-> w.status,
                                 wasOpen |-> PvHandle # NULL, hwCalled |-> TRUE,
                                 released |-> 0, function |-> function,
                                 value |-> value, hwWrite |-> w.hwWrite,
                                 read |-> w.read, trace |-> w.trace,
                                 session |-> last.session]
    /\ client' = [pc |-> "idle", op |-> "writeInt32"]
    /\ calls' = calls + 1
    /\ UNCHANGED << PvHandle, PvFrames, pArrays, framesRemaining, connected,
                    mutexOwner, pool, cb, sink, crashed, acq >>

\* Exposure times clients write, in nanoseconds: 0.005 s, 1.5 us and 0.
AcquireTimeValues == {5000000, 1500, 0}

ClientAcquireTime ==
    \E value \in AcquireTimeValues : WriteFloat64("ADAcquireTime", value)

\* Acquire periods clients write, in milliseconds: 0, 3 ms, 0.1 s and 1 s.
AcquirePeriodValues == {0, 3, 100, 1000}

ClientAcquirePeriod ==
    \E value \in AcquirePeriodValues : WriteFloat64("ADAcquirePeriod", value)

\* Gains clients write, in tenths: 0, 2.5 and 10.
GainValues == {0, 25, 100}

ClientGain ==
    \E value \in GainValues : WriteFloat64("ADGain", value)

ClientAutoSave == \E value \in {0, 1} : WriteInt32("ADAutoSave", value)

\* The asyn interface functions clients call, each of which takes the
\* mutex on entry and gives it up before it returns.
InterfaceFunctions == {"writeInt32", "writeFloat64", "readInt32", "readADImage"}

\* An interface function that goes on without the mutex.
ClientLockNotTaken ==
    /\ crashed = "none"
    /\ client.pc = "idle"
    /\ calls < MaxCalls
    /\ \E op \in InterfaceFunctions : client' = [pc |-> "locked", op |-> op]
    /\ calls' = calls + 1
    /\ UNCHANGED << PvHandle, PvFrames, pArrays, framesRemaining, params,
                    published, connected, mutexOwner, hw, pool, cb, sink,
                    crashed, last, acq >>

\* A client calls an interface function, whose first statement is
\* epicsMutexLock: it returns once the mutex is free.
ClientLock ==
    /\ crashed = "none"
    /\ client.pc = "idle"
    /\ calls < MaxCalls
    /\ mutexOwner = "none"
    /\ mutexOwner' = "client"
    /\ \E op \in InterfaceFunctions : client' = [pc |-> "locked", op |-> op]
    /\ calls' = calls + 1
    /\ UNCHANGED << PvHandle, PvFrames, pArrays, framesRemaining, params,
                    published, connected, hw, pool, cb, sink, crashed, last,
                    acq >>

\* What a read leaves in `last`: the value handed back and the status.
ReadResult(op, function, value, status) ==
    [op |-> op, status |-> status, wasOpen |-> PvHandle # NULL,
     hwCalled |-> FALSE, released |-> 0, function |-> function,
     value |-> value, hwWrite |-> FALSE, read |-> "none", trace |-> << >>,
     session |-> last.session]

\* The requests clients make of each interface function.
LockedRequests(op) ==
    CASE op = "writeInt32"   -> {<<"ADAcquire", 0>>, <<"ADAcquire", 1>>}
      [] op = "writeFloat64" -> {<<"ADGain", 25>>}
      [] op = "readInt32"    -> {<<"ADImageCounter", 0>>, <<"ADStatus_RBV", 0>>}
      [] op = "readADImage"  -> {<<"none", 0>>}

\* The body of the interface function, between its epicsMutexLock and its
\* epicsMutexUnlock: a write handler, a read of a parameter from the
\* library, or a read of the most recent image (an error when there is
\* none).
ClientBody ==
    /\ crashed = "none"
    /\ client.pc = "locked"
    /\ \E r \in LockedRequests(client.op) :
         CASE client.op \in {"writeInt32", "writeFloat64"} ->
                WriteBody(client.op, r[1], r[2])
           [] client.op = "readInt32" ->
                /\ last' = ReadResult(client.op, r[1], params[r[1]], asynSuccess)
                /\ UNCHANGED << hw, params, published, framesRemaining, acq >>
           [] client.op = "readADImage" ->
                /\ last' = ReadResult(client.op, r[1], pArrays,
                                      IF pArrays = NULL THEN asynError
                                      ELSE asynSuccess)
                /\ UNCHANGED << hw, params, published, framesRemaining, acq >>
    /\ client' = [client EXCEPT !.pc = "unlock"]
    /\ UNCHANGED << PvHandle, PvFrames, pArrays, connected, mutexOwner, pool,
                    cb, sink, crashed, calls >>

\* The epicsMutexUnlock that ends the interface function.
ClientUnlock ==
    /\ crashed = "none"
    /\ client.pc = "unlock"
    /\ mutexOwner' = IF mutexOwner = "client" THEN "none" ELSE mutexOwner
    /\ client' = [client EXCEPT !.pc = "idle"]
    /\ UNCHANGED << PvHandle, PvFrames, pArrays, framesRemaining, params,
                    published, connected, hw, pool, cb, sink, crashed, last,
                    acq, calls >>

\* ------------------------------------------------------------------------
\* writeInt32(ADAcquire, value) statement by statement
\* ------------------------------------------------------------------------

\* ADImageMode values clients write: the three modes and values outside them.
ImageModeValues == {ADImageSingle, ADImageMultiple, ADImageContinuous, 3, -1}

\* writeInt32(ADImageMode, value) for any integer a client can send.
ClientImageModeAny ==
    \E value \in ImageModeValues : WriteInt32("ADImageMode", value)

\* writeInt32(ADAcquire, value) is entered under the mutex and stores the
\* value and its readback (lines 668-669).
AcquireEnter ==
    /\ crashed = "none"
    /\ client.pc = "idle"
    /\ mutexOwner = "none"
    /\ calls < MaxCalls
    /\ \E value \in {0, 1} :
         /\ params' = [params EXCEPT !["ADAcquire"] = value,
                                     !["ADAcquire_RBV"] = value]
         /\ last' = [op |-> "writeInt32", status |-> asynSuccess,
                     wasOpen |-> PvHandle # NULL, hwCalled |-> FALSE,
                     released |-> 0, function |-> "ADAcquire",
                     value |-> value, hwWrite |-> FALSE, read |-> "none",
                     trace |-> << >>, session |-> last.session]
    /\ mutexOwner' = "client"
    /\ client' = [pc |-> "acqStored", op |-> "writeInt32"]
    /\ calls' = calls + 1
    /\ UNCHANGED << PvHandle, PvFrames, pArrays, framesRemaining, published,
                    connected, hw, pool, cb, sink, crashed, acq >>

\* Lines 705-717 of a start: the switch on the stored image mode assigns
\* framesRemaining; no case of it matches a mode outside the three.
AcquireCount ==
    /\ crashed = "none"
    /\ client.pc = "acqStored"
    /\ last.value # 0
    /\ framesRemaining' = FramesFor(params["ADImageMode"], params["ADNumImages"],
                                    framesRemaining)
    /\ acq' = [mode |-> AcqModeName(params["ADImageMode"]),
               n |-> params["ADNumImages"], good |-> 0]
    /\ client' = [client EXCEPT !.pc = "acqCounted"]
    /\ UNCHANGED << PvHandle, PvFrames, pArrays, params, published, connected,
                    mutexOwner, hw, pool, cb, sink, crashed, last, calls >>

\* Line 718 of a start, line 721 of a stop: ADStatus_RBV is set in the
\* library.
AcquireStatus ==
    /\ crashed = "none"
    /\ \/ client.pc = "acqCounted"
       \/ client.pc = "acqStored" /\ last.value = 0
    /\ params' = [params EXCEPT !["ADStatus_RBV"] =
                      IF last.value # 0 THEN ADStatusAcquire ELSE ADStatusIdle]
    /\ acq' = IF last.value = 0 THEN [mode |-> "none", n |-> 0, good |-> 0]
                                ELSE acq
    /\ client' = [client EXCEPT !.pc = "acqStatus"]
    /\ UNCHANGED << PvHandle, PvFrames, pArrays, framesRemaining, published,
                    connected, mutexOwner, hw, pool, cb, sink, crashed, last,
                    calls >>

\* Line 719 of a start, line 722 of a stop: PvCommandRun sends
\* AcquisitionStart or AcquisitionAbort, which the camera takes or refuses.
AcquireCommand ==
    /\ crashed = "none"
    /\ client.pc = "acqStatus"
    /\ LET alive == PvHandle # NULL /\ hw.open
       IN \E wOk \in BOOLEAN :
            /\ ~wOk => alive /\ hw.faultsLeft > 0
            /\ hw' = IF alive /\ wOk
                     THEN [hw EXCEPT !.acquiring = (last.value # 0)]
                     ELSE Fault(hw, alive)
            /\ last' = [last EXCEPT !.hwCalled = TRUE,
                                    !.hwWrite = alive /\ wOk,
                                    !.status = IF alive /\ wOk THEN @
                                               ELSE asynError]
    /\ client' = [client EXCEPT !.pc = "acqCommand"]
    /\ UNCHANGED << PvHandle, PvFrames, pArrays, framesRemaining, params,
                    published, connected, mutexOwner, pool, cb, sink, crashed,
                    acq, calls >>

\* Lines 760-769: readParameters refreshes and publishes the library, the
\* handler returns and the mutex is given up.
AcquireRead ==
    /\ crashed = "none"
    /\ client.pc = "acqCommand"
    /\ LET alive == PvHandle # NULL /\ hw.open
       IN \E readOk \in BOOLEAN :
            /\ readOk => alive
            /\ alive /\ ~readOk => hw.faultsLeft > 0
            /\ \E r \in {readParameters(params,
                              IF readOk THEN GoodRead(hw) ELSE FailedRead)} :
                 /\ params' = r.params
                 /\ published' = callParamCallbacks(r.params)
                 /\ last' = [last EXCEPT
                               !.status = IF r.status = asynSuccess THEN @
                                          ELSE asynError,
                               !.read = IF readOk THEN "ok" ELSE "failed"]
            /\ hw' = Fault(hw, alive /\ ~readOk)
    /\ mutexOwner' = "none"
    /\ client' = [client EXCEPT !.pc = "idle"]
    /\ UNCHANGED << PvHandle, PvFrames, pArrays, framesRemaining, connected,
                    pool, cb, sink, crashed, acq, calls >>

\* ------------------------------------------------------------------------
\* The commands of writeInt32 that write nothing to the camera
\* ------------------------------------------------------------------------

\* PSReadStatistics and ADWriteFile with the readbacks that follow them,
\* followed only by the specifications that start from InitCommands.
CommandParams ==
    { "PSReadStatistics", "PSReadStatistics_RBV", "ADWriteFile", "ADWriteFile_RBV" }

\* The object with the statistics and the command parameters followed.
BlankCommands ==
    [Blank EXCEPT
       !.params = [n \in ParamNames \cup StatParams \cup CommandParams |-> Unset(n)],
       !.published = [n \in ParamNames \cup StatParams \cup CommandParams |-> Unset(n)]]

InitCommands == Constructed(BlankCommands)

\* One sub-operation of a handler and whether it succeeded.
Did(call, ok) == [call |-> call, ok |-> ok]

\* writeInt32(function, value) for function PSReadStatistics or ADWriteFile
\* on the library p with pArrays[0] = image, as a function.  statsOk: the
\* camera answers readStats; saved: what writeFile() does; rd: what
\* readParameters reads.  status is the handler's local as the statements
\* leave it: line 734 drops what readStats returns, line 737 assigns what
\* writeFile returns, line 760 ORs in what readParameters returns.
writeCommand(p, image, function, value, statsOk, saved, rd) ==
    LET p0 == [p EXCEPT ![function] = value,
                        ![IF function = "PSReadStatistics"
                          THEN "PSReadStatistics_RBV" ELSE "ADWriteFile_RBV"] = value]
        stored == asynSuccess
        p1 == IF function = "PSReadStatistics" THEN readStats(p0, statsOk)
              ELSE writeFile(p0, image, saved)
        status1 == IF function = "PSReadStatistics" THEN stored
                   ELSE IF saved = "written" THEN asynSuccess ELSE asynError
        r == readParameters(p1, rd)
    IN [ params |-> r.params,
         status |-> IF status1 = asynSuccess /\ r.status = asynSuccess
                    THEN asynSuccess ELSE asynError,
         trace |-> << Did("setIntegerParam", TRUE),
                      IF function = "PSReadStatistics"
                      THEN Did("readStats", statsOk)
                      ELSE Did("writeFile", saved = "written"),
                      Did("readParameters", r.status = asynSuccess) >> ]

\* What writeFile() can do when writeInt32 calls it: it fails without an
\* image, and otherwise writes the file or fails.
FileOutcomes(image) ==
    IF image = NULL THEN {"failed"} ELSE {"written", "failed"}

\* A client writes PSReadStatistics or ADWriteFile under the mutex, and the
\* call returns.  A camera that is open can fail readStats, readParameters
\* or both, each failure being one of the run's faults.
ClientCommand ==
    /\ crashed = "none"
    /\ client.pc = "idle"
    /\ mutexOwner = "none"
    /\ calls < MaxCalls
    /\ LET alive == PvHandle # NULL /\ hw.open
       IN \E function \in {"PSReadStatistics", "ADWriteFile"},
             statsOk \in BOOLEAN, readOk \in BOOLEAN :
            LET stats == function = "PSReadStatistics"
                faults == (IF stats /\ alive /\ ~statsOk THEN 1 ELSE 0)
                          + (IF alive /\ ~readOk THEN 1 ELSE 0)
            IN /\ statsOk => stats /\ alive
               /\ readOk => alive
               /\ ~stats => ~statsOk
               /\ faults <= hw.faultsLeft
               /\ \E saved \in FileOutcomes(pArrays) :
                    /\ stats => saved = "failed"
                    /\ \E w \in {writeCommand(params, pArrays, function, 1,
                                               statsOk, saved,
                                               IF readOk THEN GoodRead(hw)
                                               ELSE FailedRead)} :
                         /\ params' = w.params
                         /\ published' = callParamCallbacks(w.params)
                         /\ last' = [op |-> "writeInt32", status |-> w.status,
                                     wasOpen |-> PvHandle # NULL,
                                     hwCalled |-> stats, released |-> 0,
                                     function |-> function, value |-> 1,
                                     hwWrite |-> FALSE,
                                     read |-> IF readOk THEN "ok" ELSE "failed",
                                     trace |-> w.trace,
                                     session |-> last.session]
               /\ hw' = [hw EXCEPT !.faultsLeft = @ - faults]
    /\ client' = [pc |-> "idle", op |-> "writeInt32"]
    /\ calls' = calls + 1
    /\ UNCHANGED << PvHandle, PvFrames, pArrays, framesRemaining, connected,
                    mutexOwner, pool, cb, sink, crashed, acq >>

\* ------------------------------------------------------------------------
\* disconnectCamera() statement by statement
\* ------------------------------------------------------------------------

\* How many elements past PvFrames[MAX_FRAMES-1] the walk of the release
\* loop is followed.
MaxOverrun == 2

\* Lines 497-507 of a disconnectCamera() whose PvCaptureQueueClear has
\* returned: PvCaptureEnd, PvCameraClose, and pFrame = this->PvFrames.
\* last.value is the index of the element pFrame points at.
DisconnectClose ==
    /\ crashed = "none"
    /\ client.pc = "clear"
    /\ client.op = "disconnect"
    /\ QueueCleared
    /\ \E closeOk \in BOOLEAN :
         /\ ~closeOk => hw.faultsLeft > 0
         /\ hw' = IF closeOk
                  THEN [hw EXCEPT !.open = FALSE, !.capturing = FALSE,
                                  !.acquiring = FALSE]
                  ELSE Fault(hw, TRUE)
         /\ last' = [op |-> "disconnect",
                     status |-> IF closeOk THEN asynSuccess ELSE asynError,
                     wasOpen |-> TRUE, hwCalled |-> TRUE, released |-> 0,
                     function |-> "none", value |-> 0, hwWrite |-> FALSE,
                     read |-> "none", trace |-> << >>, session |-> FALSE]
    /\ client' = [client EXCEPT !.pc = "loop"]
    /\ UNCHANGED << PvHandle, PvFrames, pArrays, framesRemaining, params,
                    published, connected, mutexOwner, pool, cb, sink, crashed,
                    acq, calls >>

\* What an iteration of the loop on an element outside PvFrames does when
\* run (undefined behaviour): the process dies, the walk goes on to the next
\* element having written to memory that is not the array's, or the loop is
\* left.
OverrunOutcomes(i) ==
    {"crash", "leave"} \cup (IF i < MAX_FRAMES + MaxOverrun THEN {"walk"} ELSE {})

\* Lines 508-517: one test of `while (pFrame)` and what follows it.  pFrame
\* is the address of an element and never NULL, so the body is run for
\* every index: inside the array it releases the slot's image, clears
\* Context[1] and steps on; lines 516-517 are reached only if the loop is
\* left.
DisconnectLoop ==
    /\ crashed = "none"
    /\ client.pc = "loop"
    /\ LET i == last.value
       IN IF i \in Slots
          THEN /\ pool' = Release(pool, PvFrames[i].Context1)
               /\ PvFrames' = [PvFrames EXCEPT ![i].Context1 = NULL]
               /\ last' = [last EXCEPT
                             !.value = i + 1,
                             !.released = IF PvFrames[i].Context1 \in ImageIds
                                          THEN @ + 1 ELSE @]
               /\ UNCHANGED << PvHandle, mutexOwner, client, crashed >>
          ELSE \E outcome \in OverrunOutcomes(i) :
                 CASE outcome = "crash" ->
                        /\ crashed' = "disconnectCamera"
                        /\ UNCHANGED << PvHandle, PvFrames, pool, mutexOwner,
                                        client, last >>
                   [] outcome = "walk" ->
                        /\ last' = [last EXCEPT !.value = i + 1]
                        /\ UNCHANGED << PvHandle, PvFrames, pool, mutexOwner,
                                        client, crashed >>
                   [] outcome = "leave" ->
                        /\ PvHandle' = NULL
                        /\ mutexOwner' = "none"
                        /\ client' = [client EXCEPT !.pc = "idle"]
                        /\ UNCHANGED << PvFrames, pool, crashed, last >>
    /\ UNCHANGED << pArrays, framesRemaining, params, published, connected,
                    hw, cb, sink, acq, calls >>

\* ------------------------------------------------------------------------
\* writeInt32(ADAcquire, value) next to a callback
\* ------------------------------------------------------------------------

\* Where the callback thread is, and with which image, when a client call
\* runs.
CallbackAt == [pc |-> cb.pc, pImage |-> cb.pImage]

\* writeInt32(ADAcquire, value) as ClientAcquire makes it, with the place of
\* the callback thread at the time of the call kept in `last`.
ClientAcquireBeside ==
    /\ crashed = "none"
    /\ client.pc = "idle"
    /\ mutexOwner = "none"
    /\ calls < MaxCalls
    /\ \E value \in {0, 1}, wOk \in BOOLEAN, readOk \in BOOLEAN :
         /\ WriteFeasible(Session, "ADAcquire", value, wOk, readOk)
         /\ \E w \in {writeParam(Session, "ADAcquire", value, wOk, readOk)} :
               /\ hw' = w.hw
               /\ params' = w.params
               /\ published' = w.published
               /\ framesRemaining' = w.framesRemaining
               /\ acq' = w.acq
               /\ last' = [op |-> "writeInt32", status |-> w.status,
                           wasOpen |-> PvHandle # NULL,
                           hwCalled |-> TRUE, released |-> 0,
                           function |-> "ADAcquire", value |-> value,
                           hwWrite |-> w.hwWrite, read |-> w.read,
                           trace |-> << CallbackAt >>,
                           session |-> last.session]
    /\ client' = [pc |-> "idle", op |-> "writeInt32"]
    /\ calls' = calls + 1
    /\ UNCHANGED << PvHandle, PvFrames, pArrays, connected, mutexOwner, pool,
                    cb, sink, crashed >>

\* ------------------------------------------------------------------------
\* Specification
\* ------------------------------------------------------------------------

\* The session's life: connects, disconnects and acquisitions started and
\* aborted by clients, against the camera and its callback thread.
Next ==
    \/ ClientConnect
    \/ ClientDisconnect
    \/ ClientTeardown
    \/ ClientAcquire
    \/ HwComplete
    \/ CbStart
    \/ CbStartCancelled
    \/ CbEntry
    \/ CbLock
    \/ CbBody1
    \/ CbSink
    \/ CbRelock
    \/ CbBody2

Spec == Init /\ [][Next]_vars

\* The same program with the statistics parameters followed.
SpecStats == InitStats /\ [][Next]_vars

\* Acquisition on a session that stays as the constructor left it: clients
\* write the image mode, the image count and the acquire command while the
\* camera returns frames.
NextAcquire ==
    \/ ClientAcquire
    \/ ClientImageMode
    \/ ClientNumImages
    \/ HwComplete
    \/ CbStart
    \/ CbEntry
    \/ CbLock
    \/ CbBody1
    \/ CbSink
    \/ CbRelock
    \/ CbBody2

SpecAcquire == Init /\ [][NextAcquire]_vars

\* Writes of the two parameters whose values writeInt32 validates.
NextParams ==
    \/ ClientTriggerMode
    \/ ClientDataType

SpecParams == Init /\ [][NextParams]_vars

\* FrameStartTriggerMode names a camera holds when the driver connects to
\* it: two of the table, and one that is not in it.
CameraTriggerModes == {"Freerun", "SyncIn2", "SyncOut1"}

\* AcquisitionMode names a camera holds when the driver connects to it: the
\* four the driver knows, and one it does not.
CameraAcquisitionModes == AcquisitionModes \cup {"Burst"}

InitTrigger ==
    \E name \in CameraTriggerModes :
        Constructed([Blank EXCEPT !.hw = [@ EXCEPT !.FrameStartTriggerMode = name]])

\* Writes of the trigger modes of the table, and of the image mode, which
\* leaves the camera's trigger mode as it is.
NextTrigger ==
    \/ ClientTriggerModeInTable
    \/ ClientImageMode

SpecTrigger == InitTrigger /\ [][NextTrigger]_vars

InitImageMode ==
    \E name \in CameraAcquisitionModes :
        Constructed([Blank EXCEPT !.hw = [@ EXCEPT !.AcquisitionMode = name]])

\* Writes of the three image modes, and of the image count, which leaves
\* the camera's acquisition mode as it is.
NextImageMode ==
    \/ ClientImageMode
    \/ ClientNumImages

SpecImageMode == InitImageMode /\ [][NextImageMode]_vars

\* One or two requests for every parameter the two write handlers dispatch
\* on: requests the camera takes as they are, requests it changes (a gain
\* of 2.5, a binning of 0, a period of 0) and requests the handler refuses
\* (trigger mode 99, NDFloat64).
WriteRequests ==
    { <<"writeInt32", "ADAcquire", 1>>,
      <<"writeInt32", "ADAcquire", 0>>,
      <<"writeInt32", "ADImageMode", ADImageMultiple>>,
      <<"writeInt32", "ADNumImages", MaxNumImages>>,
      <<"writeInt32", "ADTriggerMode", 6>>,
      <<"writeInt32", "ADTriggerMode", 99>>,
      <<"writeInt32", "ADDataType", "NDInt16">>,
      <<"writeInt32", "ADDataType", "NDFloat64">>,
      <<"writeInt32", "ADBinX", 2>>,
      <<"writeInt32", "ADBinY", 0>>,
      <<"writeInt32", "ADMinX", 10>>,
      <<"writeInt32", "ADMinY", 20>>,
      <<"writeInt32", "ADSizeX", 100>>,
      <<"writeInt32", "ADSizeY", 200>>,
      <<"writeFloat64", "ADAcquireTime", 5000000>>,
      <<"writeFloat64", "ADAcquirePeriod", 0>>,
      <<"writeFloat64", "ADGain", 25>> }

ClientWrite == \E r \in WriteRequests : Write(r[1], r[2], r[3])

\* Writes of every parameter on a camera whose frames are not collected.
NextEvery == ClientWrite

SpecEvery == Init /\ [][NextEvery]_vars

\* Readout geometries a camera holds when the driver connects to it: the
\* full sensor unbinned, and a region of 100 x 100 at (10, 10) binned by 2
\* in Y, which the driver reads as origin (10, 20) and size (100, 200).
CameraGeometries ==
    { [BinningX |-> 1, BinningY |-> 1, RegionX |-> 0, RegionY |-> 0,
       Width |-> 640, Height |-> 480],
      [BinningX |-> 1, BinningY |-> 2, RegionX |-> 10, RegionY |-> 10,
       Width |-> 100, Height |-> 100] }

\* The object before its constructor, facing a camera with geometry g.
BlankWith(g) ==
    [Blank EXCEPT !.hw = [@ EXCEPT !.BinningX = g.BinningX,
                                   !.BinningY = g.BinningY,
                                   !.RegionX = g.RegionX,
                                   !.RegionY = g.RegionY,
                                   !.Width = g.Width,
                                   !.Height = g.Height]]

InitGeometry == \E g \in CameraGeometries : Constructed(BlankWith(g))

\* Writes of the six geometry parameters.
NextGeometry == ClientGeometry

SpecGeometry == InitGeometry /\ [][NextGeometry]_vars

\* Writes of the six geometry parameters, the batch taken call by call.
NextBatch == ClientGeometryBatch

\* The constructor run against the camera that is binned when the driver
\* connects to it.
InitBatch ==
    \E g \in {c \in CameraGeometries : c.BinningY > 1} : Constructed(BlankWith(g))

SpecBatch == InitBatch /\ [][NextBatch]_vars

\* Frame rates a camera reports when the driver connects to it, in
\* thousandths of a hertz: none, and 10 Hz.
CameraFrameRates == {0, 10000}

InitFloat ==
    \E rate \in CameraFrameRates :
        Constructed([Blank EXCEPT !.hw = [@ EXCEPT !.FrameRate = rate]])

\* Writes of the three parameters writeFloat64 dispatches on.
NextFloat ==
    \/ ClientAcquireTime
    \/ ClientAcquirePeriod
    \/ ClientGain

SpecFloat == InitFloat /\ [][NextFloat]_vars

\* The requests among them that do not reach the camera as written: the
\* handler refuses trigger mode 99 and NDFloat64, and sends a gain of 2.5 as
\* 2 and a binning of 0 as 1.
ChangedRequests ==
    { r \in WriteRequests :
        \/ r[2] = "ADTriggerMode" /\ r[3] = 99
        \/ r[2] = "ADDataType" /\ r[3] = "NDFloat64"
        \/ r[2] = "ADGain"
        \/ r[2] = "ADBinY" }

ClientChanged == \E r \in ChangedRequests : Write(r[1], r[2], r[3])

\* Such writes while frames are collected and the callback publishes.
NextWrite ==
    \/ ClientAcquire
    \/ ClientChanged
    \/ HwComplete
    \/ CbStart
    \/ CbEntry
    \/ CbLock
    \/ CbBody1
    \/ CbSink
    \/ CbRelock
    \/ CbBody2

SpecWrite == Init /\ [][NextWrite]_vars

\* The session after the constructor and after clients have written
\* ADImageMode = ADImageMultiple and an image count to ADNumImages, both
\* writes taken by the camera if it is open.
InitMultiple ==
    /\ \E i \in 1 .. Len(ConnectSteps), numImages \in 1 .. MaxNumImages :
         LET fail == ConnectSteps[Len(ConnectSteps) + 1 - i]
         IN \E rd \in ConnectReads(Blank, fail) :
               LET st == connectBody(Blank, fail, rd)
                   alive == st.PvHandle # NULL /\ st.hw.open
                   s0 == [PvHandle |-> st.PvHandle, hw |-> st.hw,
                          params |-> st.params, framesRemaining |-> 0,
                          acq |-> [mode |-> "none", n |-> 0, good |-> 0]]
                   s1 == writeParam(s0, "ADImageMode", ADImageMultiple, TRUE, alive)
                   s2 == writeParam(s1, "ADNumImages", numImages, TRUE, alive)
               IN /\ ConnectFeasible(Blank, fail, rd)
                  /\ PvHandle = st.PvHandle
                  /\ PvFrames = st.PvFrames
                  /\ params = s2.params
                  /\ published = s2.published
                  /\ connected = st.connected
                  /\ hw = s2.hw
                  /\ pool = st.pool
                  /\ crashed = st.crashed
                  /\ framesRemaining = s2.framesRemaining
                  /\ acq = s2.acq
                  /\ last = [op |-> "writeInt32", status |-> s2.status,
                             wasOpen |-> st.PvHandle # NULL, hwCalled |-> TRUE,
                             released |-> 0, function |-> "ADNumImages",
                             value |-> numImages,
                             hwWrite |-> s2.hwWrite, read |-> s2.read,
                             trace |-> << >>, session |-> Up("connect", st)]
    /\ pArrays = NULL
    /\ mutexOwner = "none"
    /\ cb = [pc |-> "idle", slot |-> 0, pImage |-> NULL, header |-> NoHeader,
             locks |-> 0, unlocks |-> 0]
    /\ client = [pc |-> "idle", op |-> "writeInt32"]
    /\ sink = << >>
    /\ calls = 0

\* Acquisition on a session configured for multiple mode.
NextMultiple ==
    \/ ClientAcquire
    \/ HwComplete
    \/ CbStart
    \/ CbEntry
    \/ CbLock
    \/ CbBody1
    \/ CbSink
    \/ CbRelock
    \/ CbBody2

SpecMultiple == InitMultiple /\ [][NextMultiple]_vars

\* The driver connects to a camera found in any pixel format and with
\* either geometry, and clients start and stop the acquisition.
InitFrames ==
    \E g \in CameraGeometries, format \in PixelFormats :
        Constructed([BlankWith(g) EXCEPT !.hw = [@ EXCEPT !.PixelFormat = format]])

SpecFrames == InitFrames /\ [][NextMultiple]_vars

\* Acquisition while clients switch the saving of every image on and off.
NextAutoSave ==
    \/ ClientAcquire
    \/ ClientAutoSave
    \/ HwComplete
    \/ CbStart
    \/ CbEntry
    \/ CbLock
    \/ CbBody1
    \/ CbSink
    \/ CbRelock
    \/ CbBody2

SpecAutoSave == Init /\ [][NextAutoSave]_vars

\* Clients calling the interface functions step by step, and disconnecting,
\* against the camera and its callback thread.
NextLock ==
    \/ ClientLock
    \/ ClientBody
    \/ ClientUnlock
    \/ ClientDisconnect
    \/ ClientTeardown
    \/ HwComplete
    \/ CbStart
    \/ CbStartCancelled
    \/ CbEntry
    \/ CbLock
    \/ CbBody1
    \/ CbSink
    \/ CbRelock
    \/ CbBody2

SpecLock == Init /\ [][NextLock]_vars

\* connectCamera() and disconnectCamera() with the calls they made kept in
\* `last`.
ClientConnectTraced == ConnectWith(TRUE)

ClientTeardownTraced == TeardownWith(TRUE)

\* Clients connecting and disconnecting, while the callback thread runs
\* the callbacks of the frames the disconnects cancel.
NextConnect ==
    \/ ClientConnectTraced
    \/ ClientDisconnect
    \/ ClientTeardownTraced
    \/ CbStartCancelled
    \/ CbEntry

SpecConnect == InitStats /\ [][NextConnect]_vars

\* An acquisition in which the callback releases the current image and
\* installs the new one as the two statements they are.
NextSwap ==
    \/ ClientAcquire
    \/ HwComplete
    \/ CbStart
    \/ CbEntry
    \/ CbLock
    \/ CbRelease
    \/ CbInstall
    \/ CbBody1Bad
    \/ CbSink
    \/ CbRelock
    \/ CbBody2

SpecSwap == Init /\ [][NextSwap]_vars

\* An acquisition started and stopped statement by statement, in any image
\* mode a client has written, while the camera returns frames.
NextDispatch ==
    \/ AcquireEnter
    \/ AcquireCount
    \/ AcquireStatus
    \/ AcquireCommand
    \/ AcquireRead
    \/ ClientImageModeAny
    \/ HwComplete
    \/ CbStart
    \/ CbEntry
    \/ CbLock
    \/ CbBody1
    \/ CbSink
    \/ CbRelock
    \/ CbBody2

SpecDispatch == InitMultiple /\ [][NextDispatch]_vars

\* Writes of the parameters the camera takes, and of the two commands it
\* does not, while an acquisition gives the driver an image to write.
NextCommands ==
    \/ ClientAcquire
    \/ ClientTriggerMode
    \/ ClientCommand
    \/ HwComplete
    \/ CbStart
    \/ CbEntry
    \/ CbLock
    \/ CbBody1
    \/ CbSink
    \/ CbRelock
    \/ CbBody2

SpecCommands == InitCommands /\ [][NextCommands]_vars

\* Clients starting acquisitions and disconnecting, the disconnect run
\* statement by statement.
NextTeardown ==
    \/ ClientAcquire
    \/ ClientDisconnect
    \/ DisconnectClose
    \/ DisconnectLoop
    \/ HwComplete
    \/ CbStart
    \/ CbStartCancelled
    \/ CbEntry

SpecTeardown == Init /\ [][NextTeardown]_vars

\* Acquisitions on a session that clients connect again, the frames the
\* reconnect cancels included.
NextCounters ==
    \/ ClientConnect
    \/ ClientTeardown
    \/ ClientAcquire
    \/ HwComplete
    \/ CbStart
    \/ CbStartCancelled
    \/ CbEntry
    \/ CbLock
    \/ CbBody1
    \/ CbSink
    \/ CbRelock
    \/ CbBody2

\* The object whose constructor connected it.
InitConnected == Init /\ connected

SpecCounters == InitConnected /\ [][NextCounters]_vars

\* Acquisitions on a session configured for multiple mode, with any image
\* count and image mode written before and while frames are collected.
NextCount ==
    \/ ClientAcquire
    \/ ClientImageMode
    \/ ClientNumImagesAny
    \/ HwComplete
    \/ CbStart
    \/ CbEntry
    \/ CbLock
    \/ CbBody1
    \/ CbSink
    \/ CbRelock
    \/ CbBody2

SpecCount == InitMultiple /\ [][NextCount]_vars

\* Acquisitions started and stopped before, between and inside the
\* callbacks of the frames.
NextBeside ==
    \/ ClientAcquireBeside
    \/ ClientImageMode
    \/ HwComplete
    \/ CbStart
    \/ CbEntry
    \/ CbLock
    \/ CbBody1
    \/ CbSink
    \/ CbRelock
    \/ CbBody2

SpecBeside == Init /\ [][NextBeside]_vars

\* The session the constructor connected, after a client has started an
\* acquisition that the camera took.
InitAcquiring ==
    /\ LET st == connectBody(Blank, "none", GoodRead([Blank.hw EXCEPT !.open = TRUE]))
           s0 == [PvHandle |-> st.PvHandle, hw |-> st.hw,
                  params |-> st.params, framesRemaining |-> 0,
                  acq |-> [mode |-> "none", n |-> 0, good |-> 0]]
           s1 == writeParam(s0, "ADAcquire", 1, TRUE, TRUE)
       IN /\ PvHandle = st.PvHandle
          /\ PvFrames = st.PvFrames
          /\ params = s1.params
          /\ published = s1.published
          /\ connected = st.connected
          /\ hw = s1.hw
          /\ pool = st.pool
          /\ crashed = st.crashed
          /\ framesRemaining = s1.framesRemaining
          /\ acq = s1.acq
          /\ last = [op |-> "writeInt32", status |-> s1.status,
                     wasOpen |-> TRUE, hwCalled |-> TRUE,
                     released |-> 0, function |-> "ADAcquire", value |-> 1,
                     hwWrite |-> s1.hwWrite, read |-> s1.read,
                     trace |-> << >>, session |-> TRUE]
    /\ pArrays = NULL
    /\ mutexOwner = "none"
    /\ cb = [pc |-> "idle", slot |-> 0, pImage |-> NULL, header |-> NoHeader,
             locks |-> 0, unlocks |-> 0]
    /\ client = [pc |-> "idle", op |-> "writeInt32"]
    /\ sink = << >>
    /\ calls = 0

\* Clients disconnecting and connecting a session that is acquiring, against
\* the camera and its callback thread.
NextImages ==
    \/ ClientConnect
    \/ ClientDisconnect
    \/ ClientTeardown
    \/ HwComplete
    \/ CbStart
    \/ CbStartCancelled
    \/ CbEntry
    \/ CbLock
    \/ CbBody1
    \/ CbSink
    \/ CbRelock
    \/ CbBody2

SpecImages == InitAcquiring /\ [][NextImages]_vars

\* The session the constructor connected, after clients have written
\* ADImageMode = ADImageMultiple and an image count and started an
\* acquisition, all three writes taken by the camera.
InitStarted ==
    /\ \E numImages \in 1 .. MaxNumImages :
         LET st == connectBody(Blank, "none", GoodRead([Blank.hw EXCEPT !.open = TRUE]))
             s0 == [PvHandle |-> st.PvHandle, hw |-> st.hw,
                    params |-> st.params, framesRemaining |-> 0,
                    acq |-> [mode |-> "none", n |-> 0, good |-> 0]]
             s1 == writeParam(s0, "ADImageMode", ADImageMultiple, TRUE, TRUE)
             s2 == writeParam(s1, "ADNumImages", numImages, TRUE, TRUE)
             s3 == writeParam(s2, "ADAcquire", 1, TRUE, TRUE)
         IN /\ PvHandle = st.PvHandle
            /\ PvFrames = st.PvFrames
            /\ params = s3.params
            /\ published = s3.published
            /\ connected = st.connected
            /\ hw = s3.hw
            /\ pool = st.pool
            /\ crashed = st.crashed
            /\ framesRemaining = s3.framesRemaining
            /\ acq = s3.acq
            /\ last = [op |-> "writeInt32", status |-> s3.status,
                       wasOpen |-> TRUE, hwCalled |-> TRUE,
                       released |-> 0, function |-> "ADAcquire", value |-> 1,
                       hwWrite |-> s3.hwWrite, read |-> s3.read,
                       trace |-> << >>, session |-> TRUE]
    /\ pArrays = NULL
    /\ mutexOwner = "none"
    /\ cb = [pc |-> "idle", slot |-> 0, pImage |-> NULL, header |-> NoHeader,
             locks |-> 0, unlocks |-> 0]
    /\ client = [pc |-> "idle", op |-> "writeInt32"]
    /\ sink = << >>
    /\ calls = 0

\* writeInt32(ADAcquire) statement by statement and writes of any image
\* mode, on a session that has an acquisition behind it.
SpecCarry == InitStarted /\ [][NextDispatch]_vars

\* ------------------------------------------------------------------------
\* Properties
\* ------------------------------------------------------------------------

\* A step of the callback thread that leaves frameCallback's entry.
CbLeavesEntry == cb.pc = "entry" /\ cb'.pc # "entry"

\* C1: a callback entered for a frame whose status is ePvErrCancelled
\* returns at once: it does not take the mutex, changes nothing of the
\* session (image, slots, counters, parameters, published values, pool),
\* delivers nothing to the NDArray callback and does not queue its slot again.
C1_CancelledCallbackReturnsAtOnce ==
    [][ (CbLeavesEntry /\ PvFrames[cb.slot].Status = "ePvErrCancelled")
        => /\ cb'.pc = "idle"
           /\ cb'.locks = 0 /\ cb'.unlocks = 0
           /\ mutexOwner' = mutexOwner
           /\ sink' = sink
           /\ hw' = hw
           /\ UNCHANGED << PvHandle, PvFrames, pArrays, framesRemaining, params,
                           published, connected, pool >> ]_vars

\* A cancelled callback has returned while the client is still inside
\* PvCaptureQueueClear, holding the mutex.
C1_Witness ==
    /\ client.pc = "clear"
    /\ mutexOwner = "client"
    /\ cb.pc = "idle"
    /\ PvFrames[cb.slot].Status = "ePvErrCancelled"
    /\ cb.locks = 0

\* The client is inside PvCaptureQueueClear holding the mutex and waits for
\* the callback thread to deliver the cancelled frames, while the callback
\* thread is inside an earlier callback and waits for the mutex.
MutualWait ==
    /\ client.pc = "clear"
    /\ mutexOwner = "client"
    /\ hw.cancel # {}
    /\ cb.pc \in {"lock", "relock"}

\* C2: a disconnect that holds the mutex while it clears the capture queue
\* never ends in a mutual wait with the callback thread, and it always runs
\* to completion.
C2_DisconnectNeverStuck ==
    /\ ~MutualWait
    /\ crashed # "disconnectCamera"

\* C3: the NDArray callback is made only while the callback thread does not
\* hold the mutex; the mutex is held again whenever session state is touched
\* afterwards; and a callback that has returned has unlocked as often as it
\* locked and does not own the mutex.
C3_SinkOutsideMutex ==
    /\ cb.pc = "sink" => mutexOwner # "cb" /\ cb.locks = 1 /\ cb.unlocks = 1
    /\ cb.pc \in {"body1", "body2"} => mutexOwner = "cb"
    /\ cb.pc = "body2" => cb.locks = 2 /\ cb.unlocks = 1
    /\ cb.pc \in {"idle", "entry", "lock", "relock"} =>
          mutexOwner # "cb" /\ cb.locks = cb.unlocks

\* A good frame's callback has delivered its image, taken the mutex again
\* and returned.
C3_Witness ==
    /\ cb.pc = "idle"
    /\ cb.locks = 2 /\ cb.unlocks = 2
    /\ Len(sink) >= 1
    /\ mutexOwner = "none"

\* An image the pool has handed out and taken back at least once.
Released(img) == img \in ImageIds /\ pool.relCount[img] >= 1

\* C4: the image that was current is released exactly once when the callback
\* replaces it, whatever the client does between the callback's unlock and
\* its relock: no image is at once the current image and released, and no
\* image is released twice.
C4_CurrentImageNeverReleased ==
    crashed = "none"
    => /\ ~Released(pArrays)
       /\ \A img \in ImageIds : pool.relCount[img] <= 1

\* The last client call was a connectCamera() that returned an error.
ConnectFailed == last.op = "connect" /\ last.status # asynSuccess

\* C5: after a connect that failed, at whatever step, the session is not
\* reported connected and no frame slot is bound to an image.
C5_FailedConnectLeavesNothingBound ==
    (ConnectFailed /\ crashed = "none")
    => /\ ~connected
       /\ \A s \in Slots : PvFrames[s].Context1 \notin ImageIds

\* C6: after a connect that failed, the camera handle is closed and NULL,
\* the capture stream is not running and no frame slot is queued.
C6_FailedConnectClosesCamera ==
    (ConnectFailed /\ crashed = "none")
    => /\ PvHandle = NULL
       /\ ~hw.open
       /\ ~hw.capturing
       /\ hw.queue = << >>

\* A client's call of disconnectCamera().
DisconnectCall == calls' = calls + 1 /\ client'.op = "disconnect"

\* C7: disconnectCamera() on a session that has no handle returns success,
\* makes no camera call, releases no image and changes nothing of the
\* session or the camera.
C7_DisconnectIdempotent ==
    [][ (DisconnectCall /\ PvHandle = NULL)
        => /\ last'.op = "disconnect"
           /\ last'.status = asynSuccess
           /\ ~last'.hwCalled
           /\ last'.released = 0
           /\ client'.pc = "idle"
           /\ UNCHANGED << PvHandle, PvFrames, pArrays, framesRemaining, params,
                           published, connected, mutexOwner, hw, pool, cb,
                           sink, crashed >> ]_vars

\* A session that was connected and has been taken down has just had
\* disconnectCamera() called on it again.
C7_Witness ==
    /\ connected
    /\ PvHandle = NULL
    /\ client = [pc |-> "idle", op |-> "disconnect"]
    /\ last.op = "disconnect" /\ ~last.wasOpen
    /\ calls = 2

\* The step in which a disconnectCamera() on a connected session runs on
\* from PvCaptureQueueClear.
DisconnectTeardownStep ==
    /\ connected
    /\ client.pc = "clear" /\ client.op = "disconnect"
    /\ (client'.pc # "clear" \/ crashed' # crashed)

\* C8: disconnectCamera() on a connected session clears the queue, ends the
\* capture and closes the camera, releases each slot's image once, sets each
\* slot's image reference and the handle to NULL, and runs to its end even
\* when a camera call fails.
C8_DisconnectReleasesAll ==
    [][ DisconnectTeardownStep
        => /\ crashed' = "none"
           /\ client'.pc = "idle"
           /\ last'.status = asynSuccess
           /\ PvHandle' = NULL
           /\ hw'.queue = << >> /\ ~hw'.capturing /\ ~hw'.open
           /\ \A s \in Slots :
                 /\ PvFrames'[s].Context1 = NULL
                 /\ PvFrames[s].Context1 \in ImageIds =>
                       pool'.relCount[PvFrames[s].Context1] =
                       pool.relCount[PvFrames[s].Context1] + 1 ]_vars

\* The published values of the acquisition say idle.
PublishedIdle ==
    /\ params["ADStatus_RBV"] = ADStatusIdle
    /\ params["ADAcquire"] = 0 /\ params["ADAcquire_RBV"] = 0
    /\ published["ADStatus_RBV"] = ADStatusIdle
    /\ published["ADAcquire"] = 0 /\ published["ADAcquire_RBV"] = 0

\* The published values of the acquisition say acquiring.
PublishedAcquiring ==
    /\ params["ADStatus_RBV"] = ADStatusAcquire
    /\ params["ADAcquire"] # 0 /\ params["ADAcquire_RBV"] # 0
    /\ published["ADStatus_RBV"] = ADStatusAcquire
    /\ published["ADAcquire"] # 0 /\ published["ADAcquire_RBV"] # 0

\* C9: an acquisition started in single mode has framesRemaining 1 until a
\* good frame completes; from the first good frame on framesRemaining is 0,
\* the status is ADStatusIdle and ADAcquire and ADAcquire_RBV are published
\* as 0.
C9_SingleFrameEndsAcquisition ==
    acq.mode = "single"
    => /\ acq.good = 0 => framesRemaining = 1
       /\ acq.good >= 1 => framesRemaining = 0 /\ PublishedIdle

\* The first good frame of a single-mode acquisition has been counted.
C9_Witness ==
    /\ acq.mode = "single"
    /\ acq.good = 1
    /\ cb.pc = "idle"
    /\ framesRemaining = 0
    /\ published["ADStatus_RBV"] = ADStatusIdle

\* C10: in an acquisition started in continuous mode framesRemaining is
\* never 0 and no callback publishes ADStatusIdle or clears ADAcquire, for
\* as long as no client writes ADAcquire again.
C10_ContinuousNeverEnds ==
    acq.mode = "continuous"
    => /\ framesRemaining = -1
       /\ PublishedAcquiring

\* Two good frames and a bad one of a continuous acquisition have been
\* through the callback.
C10_Witness ==
    /\ acq.mode = "continuous"
    /\ acq.good >= 2
    /\ params["PSBadFrameCounter_RBV"] >= 1
    /\ cb.pc = "idle"

\* C11: in an acquisition started in multiple mode with ADNumImages N >= 1
\* the callback sets ADStatusIdle and clears ADAcquire at the N-th good
\* frame and at no earlier one: before it framesRemaining is N less the good
\* frames counted and the published values say acquiring, whatever number
\* of bad frames came in between.
C11_MultipleEndsAtNth ==
    (acq.mode = "multiple" /\ acq.n >= 1)
    => /\ acq.good < acq.n =>
             framesRemaining = acq.n - acq.good /\ PublishedAcquiring
       /\ acq.good >= acq.n => framesRemaining = 0 /\ PublishedIdle

\* The second good frame of a two-frame acquisition has been counted, after
\* a bad frame.
C11_Witness ==
    /\ acq.mode = "multiple"
    /\ acq.n = 2
    /\ acq.good = 2
    /\ params["PSBadFrameCounter_RBV"] >= 1
    /\ framesRemaining = 0
    /\ published["ADStatus_RBV"] = ADStatusIdle


\* ------------------------------------------------------------------------
\* C12
\* ------------------------------------------------------------------------

\* This step is a call of writeInt32 or writeFloat64 for the parameter
\* function.
WriteStep(function) == calls' = calls + 1 /\ last'.function = function

\* C12: a writeInt32 of ADTriggerMode with an index below 0 or above 6
\* returns an error and sends no FrameStartTriggerMode to the camera; the
\* readParameters that follows runs, it succeeds whenever the open camera
\* has no fault to give, and when it succeeds the ADTriggerMode_RBV in the
\* library and as published is the index of the camera's own trigger mode.
C12_TriggerModeOutsideTableRejected ==
    [][ ( /\ WriteStep("ADTriggerMode")
          /\ (last'.value < 0 \/ last'.value > NUM_START_TRIGGER_MODES - 1) )
        => /\ last'.op = "writeInt32"
           /\ last'.status = asynError
           /\ ~last'.hwWrite
           /\ hw'.FrameStartTriggerMode = hw.FrameStartTriggerMode
           /\ last'.read \in {"ok", "failed"}
           /\ (PvHandle # NULL /\ hw.open /\ hw.faultsLeft = 0) => last'.read = "ok"
           /\ last'.read = "ok"
              => /\ params'["ADTriggerMode_RBV"] =
                        TriggerIndexOf(hw.FrameStartTriggerMode)
                 /\ published'["ADTriggerMode_RBV"] =
                        TriggerIndexOf(hw.FrameStartTriggerMode) ]_vars

\* Index 99 was written while the camera was in mode "Software" (index 6):
\* the call returned an error and the published readback is 6.
C12_Witness ==
    /\ last.function = "ADTriggerMode"
    /\ last.value = 99
    /\ last.status = asynError
    /\ ~last.hwWrite
    /\ last.read = "ok"
    /\ params["ADTriggerMode"] = 99
    /\ hw.FrameStartTriggerMode = "Software"
    /\ published["ADTriggerMode_RBV"] = 6


\* ------------------------------------------------------------------------
\* C13
\* ------------------------------------------------------------------------

\* The camera is open and has no fault left to give.
Sound == PvHandle # NULL /\ hw.open /\ hw.faultsLeft = 0

\* C13: a writeInt32 of ADDataType sends PixelFormat "Mono8" for NDInt8 and
\* NDUInt8 and "Mono16" for NDInt16 and NDUInt16; for any other type it
\* returns an error and sends no PixelFormat; in every case readParameters
\* runs afterwards, and when it succeeds ADDataType_RBV in the library and
\* as published is the data type of the camera's pixel format.
C13_DataTypeWrite ==
    [][ WriteStep("ADDataType")
        => /\ last'.op = "writeInt32"
           /\ last'.value \in {"NDInt8", "NDUInt8"}
              => /\ last'.hwWrite => hw'.PixelFormat = "Mono8"
                 /\ Sound => last'.hwWrite /\ last'.status = asynSuccess
           /\ last'.value \in {"NDInt16", "NDUInt16"}
              => /\ last'.hwWrite => hw'.PixelFormat = "Mono16"
                 /\ Sound => last'.hwWrite /\ last'.status = asynSuccess
           /\ last'.value \notin {"NDInt8", "NDUInt8", "NDInt16", "NDUInt16"}
              => /\ last'.status = asynError
                 /\ ~last'.hwWrite
                 /\ hw'.PixelFormat = hw.PixelFormat
           /\ last'.read \in {"ok", "failed"}
           /\ Sound => last'.read = "ok"
           /\ last'.read = "ok"
              => /\ params'["ADDataType_RBV"] = DataTypeOf(hw'.PixelFormat)
                 /\ published'["ADDataType_RBV"] = DataTypeOf(hw'.PixelFormat) ]_vars

\* NDFloat64 was written to a camera in Mono16: the call returned an error,
\* the camera is still in Mono16 and the published readback is NDUInt16.
C13_Witness ==
    /\ last.function = "ADDataType"
    /\ last.value = "NDFloat64"
    /\ last.status = asynError
    /\ ~last.hwWrite
    /\ last.read = "ok"
    /\ hw.PixelFormat = "Mono16"
    /\ params["ADDataType"] = "NDFloat64"
    /\ published["ADDataType_RBV"] = "NDUInt16"


\* ------------------------------------------------------------------------
\* C14
\* ------------------------------------------------------------------------

\* This step is a call of writeInt32 or writeFloat64.
AnyWriteStep ==
    calls' = calls + 1 /\ last'.op \in {"writeInt32", "writeFloat64"}

\* The readbacks as the attributes of the camera h give them.
ReadbacksOf(h) ==
    [ ADDataType_RBV      |-> DataTypeOf(h.PixelFormat),
      ADNumImages_RBV     |-> h.AcquisitionFrameCount,
      ADImageMode_RBV     |-> ImageModeOf(h.AcquisitionMode),
      ADTriggerMode_RBV   |-> TriggerIndexOf(h.FrameStartTriggerMode),
      ADBinX_RBV          |-> h.BinningX,
      ADBinY_RBV          |-> h.BinningY,
      ADMinX_RBV          |-> h.RegionX * h.BinningX,
      ADMinY_RBV          |-> h.RegionY * h.BinningY,
      ADSizeX_RBV         |-> h.Width * h.BinningX,
      ADSizeY_RBV         |-> h.Height * h.BinningY,
      ADImageSizeX_RBV    |-> h.Width,
      ADImageSizeY_RBV    |-> h.Height,
      ADAcquireTime_RBV   |-> AcquireTimeOf(h.ExposureValue),
      ADAcquirePeriod_RBV |-> AcquirePeriodOf(h.FrameRate),
      ADGain_RBV          |-> GainOf(h.GainValue) ]

\* Every readback of the library p is the one the camera h gives.
FromCamera(p, h) ==
    \A n \in DOMAIN ReadbacksOf(h) : p[n] = ReadbacksOf(h)[n]

\* C14: every call of writeInt32 and of writeFloat64, whatever its
\* parameter and whether the camera took the command, failed it or the
\* handler refused the value, has run readParameters after the dispatch
\* (the readbacks are those of the camera after the command when the read
\* succeeded, and the leftovers of a failed read otherwise) and has notified
\* the observers of the resulting library when it returns.
C14_WriteAlwaysReadsBack ==
    [][ AnyWriteStep
        => /\ last'.read \in {"ok", "failed"}
           /\ Sound => last'.read = "ok"
           /\ last'.read = "ok" => FromCamera(params', hw')
           /\ last'.read = "failed"
              => /\ params'["ADNumImages_RBV"] = -1
                 /\ params'["ADDataType_RBV"] = "-1"
                 /\ last'.status = asynError
           /\ published' = params' ]_vars

\* A gain of 2.5 was written to an open camera that failed the command:
\* the call returned an error, the read-back ran and observers see the
\* camera's gain of 0.
C14_Witness ==
    /\ last.op = "writeFloat64"
    /\ last.function = "ADGain"
    /\ last.value = 25
    /\ last.wasOpen
    /\ ~last.hwWrite
    /\ last.status = asynError
    /\ last.read = "ok"
    /\ hw.GainValue = 0
    /\ published["ADGain_RBV"] = 0
    /\ published = params


\* ------------------------------------------------------------------------
\* C15
\* ------------------------------------------------------------------------

\* C15: whatever the interleaving of the write handlers with the frame
\* callback and its callParamCallbacks, once a write has re-read the camera
\* the readbacks observers have been told (geometry, image mode, trigger
\* mode, image count, exposure, period, gain, data type) are those of the
\* camera's attributes, also when the camera or the handler did not take
\* the value as requested; observers are never left with the requested
\* value in a readback.
C15_PublishedFromCamera ==
    (last.op \in {"writeInt32", "writeFloat64"} /\ last.read = "ok")
    => FromCamera(published, hw)

\* A gain of 2.5 was written during an acquisition, the camera holds 2, and
\* the frame callback has published a frame since the acquisition began:
\* observers see the request 2.5 in ADGain and the camera's 2 in ADGain_RBV.
C15_Witness ==
    /\ last.function = "ADGain"
    /\ last.value = 25
    /\ last.read = "ok"
    /\ hw.GainValue = 2
    /\ cb.pc = "idle"
    /\ Len(sink) >= 1
    /\ published["ADImageCounter_RBV"] >= 1
    /\ published["ADGain"] = 25
    /\ published["ADGain_RBV"] = 20


\* ------------------------------------------------------------------------
\* C16
\* ------------------------------------------------------------------------

\* This step is a writeInt32 of one of the geometry parameters.
GeometryWriteStep ==
    calls' = calls + 1 /\ last'.function \in GeometryParams

\* The geometry parameters as setGeometry finds them in this step: the
\* library with the written parameter set to the written value.
Requested ==
    [n \in GeometryParams |-> IF n = last'.function THEN last'.value ELSE params[n]]

\* C16: when both binning factors are at least 1, a geometry write that the
\* camera takes leaves BinningX/Y = b, RegionX/Y = origin div b and
\* Width/Height = size div b; the read-back then publishes the origin
\* (origin div b) * b and the size (size div b) * b, which are the requested
\* origin and size when these are multiples of b.
C16_GeometryRoundTrip ==
    [][ ( /\ GeometryWriteStep
          /\ Requested["ADBinX"] >= 1
          /\ Requested["ADBinY"] >= 1
          /\ last'.hwWrite )
        => LET bX == Requested["ADBinX"]
               bY == Requested["ADBinY"]
               minX == (Requested["ADMinX"] \div bX) * bX
               minY == (Requested["ADMinY"] \div bY) * bY
               sizeX == (Requested["ADSizeX"] \div bX) * bX
               sizeY == (Requested["ADSizeY"] \div bY) * bY
           IN /\ hw'.BinningX = bX
              /\ hw'.BinningY = bY
              /\ hw'.RegionX = Requested["ADMinX"] \div bX
              /\ hw'.RegionY = Requested["ADMinY"] \div bY
              /\ hw'.Width = Requested["ADSizeX"] \div bX
              /\ hw'.Height = Requested["ADSizeY"] \div bY
              /\ last'.read = "ok"
                 => /\ published'["ADBinX_RBV"] = bX
                    /\ published'["ADBinY_RBV"] = bY
                    /\ published'["ADMinX_RBV"] = minX
                    /\ published'["ADMinY_RBV"] = minY
                    /\ published'["ADSizeX_RBV"] = sizeX
                    /\ published'["ADSizeY_RBV"] = sizeY
                    /\ published'["ADMinX"] = minX
                    /\ published'["ADMinY"] = minY
                    /\ published'["ADSizeX"] = sizeX
                    /\ published'["ADSizeY"] = sizeY
                    /\ Requested["ADMinX"] % bX = 0
                       => published'["ADMinX_RBV"] = Requested["ADMinX"]
                    /\ Requested["ADMinY"] % bY = 0
                       => published'["ADMinY_RBV"] = Requested["ADMinY"]
                    /\ Requested["ADSizeX"] % bX = 0
                       => published'["ADSizeX_RBV"] = Requested["ADSizeX"]
                    /\ Requested["ADSizeY"] % bY = 0
                       => published'["ADSizeY_RBV"] = Requested["ADSizeY"] ]_vars

\* Binning 2 in X was written with binning 2 in Y, origin (10, 20) and size
\* (100, 200) in the library: the camera holds region (5, 10) of 50 x 100
\* and the origin and size read back as they were.
C16_Witness ==
    /\ last.function = "ADBinX"
    /\ last.value = 2
    /\ last.hwWrite
    /\ last.read = "ok"
    /\ hw.BinningX = 2 /\ hw.BinningY = 2
    /\ hw.RegionX = 5 /\ hw.RegionY = 10
    /\ hw.Width = 50 /\ hw.Height = 100
    /\ published["ADMinX_RBV"] = 10 /\ published["ADMinY_RBV"] = 20
    /\ published["ADSizeX_RBV"] = 100 /\ published["ADSizeY_RBV"] = 200

\* Binning 3 in X was written with origin 10 and size 100 in the library:
\* the origin reads back as 9 and the size as 99.
C16_WitnessTruncated ==
    /\ last.function = "ADBinX"
    /\ last.value = 3
    /\ last.hwWrite
    /\ last.read = "ok"
    /\ hw.RegionX = 3 /\ hw.Width = 33
    /\ published["ADMinX_RBV"] = 9
    /\ published["ADSizeX_RBV"] = 99


\* ------------------------------------------------------------------------
\* C17
\* ------------------------------------------------------------------------

\* C17: a writeFloat64 of ADAcquireTime = t that the camera takes leaves
\* ExposureValue at t * 10^6 cut down to a whole number of microseconds,
\* and a read of ExposureValue = m publishes ADAcquireTime_RBV = m / 10^6
\* seconds: 0.005 s is sent as 5000 and 5000 reads back as 0.005 s.  Times
\* are in nanoseconds here, so t * 10^6 microseconds is t \div 1000.
C17_ExposureRoundTrip ==
    [][ AnyWriteStep
        => /\ (last'.function = "ADAcquireTime" /\ last'.hwWrite)
              => /\ last'.op = "writeFloat64"
                 /\ hw'.ExposureValue = last'.value \div 1000
                 /\ last'.value = 5000000 => hw'.ExposureValue = 5000
           /\ last'.read = "ok"
              => /\ published'["ADAcquireTime_RBV"] = hw'.ExposureValue * 1000
                 /\ hw'.ExposureValue = 5000
                    => published'["ADAcquireTime_RBV"] = 5000000 ]_vars

\* 0.005 s was written and taken: the camera holds 5000 us and observers
\* see 0.005 s.
C17_Witness ==
    /\ last.function = "ADAcquireTime"
    /\ last.value = 5000000
    /\ last.hwWrite
    /\ last.read = "ok"
    /\ hw.ExposureValue = 5000
    /\ published["ADAcquireTime_RBV"] = 5000000

\* 1.5 us was written and taken: the camera holds 1 us and observers see
\* 1 us.
C17_WitnessTruncated ==
    /\ last.function = "ADAcquireTime"
    /\ last.value = 1500
    /\ last.hwWrite
    /\ last.read = "ok"
    /\ hw.ExposureValue = 1
    /\ published["ADAcquireTime_RBV"] = 1000


\* ------------------------------------------------------------------------
\* C18
\* ------------------------------------------------------------------------

\* The published values come from a readParameters that the camera
\* answered: that of a connect that succeeded or that of a write.
ReadByDriver ==
    \/ last.op = "connect" /\ last.status = asynSuccess
    \/ last.op \in {"writeInt32", "writeFloat64"} /\ last.read = "ok"

\* C18: a camera that reports FrameRate = 0 is published with
\* ADAcquirePeriod_RBV = 1.0 s, the rate being taken as 1; and a write of
\* ADAcquirePeriod = 0 that the camera takes sends the rate of a period of
\* 0.01 s, which is 100 Hz.  Periods are in milliseconds and rates in
\* thousandths of a hertz here.
C18_PeriodZeroGuards ==
    /\ []((ReadByDriver /\ hw.FrameRate = 0)
          => published["ADAcquirePeriod_RBV"] = 1000)
    /\ [][ ( /\ WriteStep("ADAcquirePeriod")
             /\ last'.value = 0
             /\ last'.hwWrite )
           => /\ hw'.FrameRate = 100000
              /\ last'.read = "ok" => published'["ADAcquirePeriod_RBV"] = 10 ]_vars

\* A period of 0 was written and taken: the camera runs at 100 Hz and
\* observers see a period of 0.01 s.
C18_Witness ==
    /\ last.function = "ADAcquirePeriod"
    /\ last.value = 0
    /\ last.hwWrite
    /\ last.read = "ok"
    /\ hw.FrameRate = 100000
    /\ params["ADAcquirePeriod"] = 0
    /\ published["ADAcquirePeriod_RBV"] = 10

\* The driver connected to a camera that reports a rate of 0 and read it
\* again after a gain write: observers see a period of 1 s.
C18_WitnessZeroRate ==
    /\ last.function = "ADGain"
    /\ last.read = "ok"
    /\ hw.FrameRate = 0
    /\ published["ADAcquirePeriod_RBV"] = 1000


\* ------------------------------------------------------------------------
\* C19
\* ------------------------------------------------------------------------

\* The data type an NDArray is to carry for a frame of the given format.
MappedDataType(format) ==
    IF format \in {"Mono8", "Bayer8"} THEN "NDUInt8"
    ELSE IF format \in {"Mono16", "Bayer16"} THEN "NDUInt16"
    ELSE "NDUInt32"

\* The callback is past its NDArray callback for the frame it handles.
Delivered == cb.pc \in {"relock", "body2"}

\* C19: the callback of a frame completed with ePvErrSuccess hands that
\* frame's image to the NDArray callback exactly once, with the frame's
\* Width and Height, its FrameCount as uniqueId and the data type of its
\* Format; the callback of a frame with any other status hands over
\* nothing.
C19_OneDeliveryPerGoodFrame ==
    /\ [](/\ crashed = "none"
          /\ cb.pc \in {"sink", "relock", "body2"}
             => /\ PvFrames[cb.slot].Status = "ePvErrSuccess"
                /\ cb.pImage \in ImageIds
                /\ cb.header.width = PvFrames[cb.slot].Width
                /\ cb.header.height = PvFrames[cb.slot].Height
                /\ cb.header.uniqueId = PvFrames[cb.slot].FrameCount
                /\ cb.header.dataType = MappedDataType(PvFrames[cb.slot].Format)
          /\ Len(sink) = params["ADImageCounter"] + (IF Delivered THEN 1 ELSE 0)
          /\ Delivered => sink[Len(sink)] = cb.pImage)
    /\ [][ /\ (cb.pc = "body1" /\ cb'.pc # "body1")
              => IF PvFrames[cb.slot].Status = "ePvErrSuccess"
                 THEN /\ cb'.pc = "sink"
                      /\ cb'.pImage = PvFrames[cb.slot].Context1
                 ELSE cb'.pc = "idle"
           /\ (cb.pc = "sink" /\ cb'.pc # "sink")
              => /\ cb'.pc = "relock"
                 /\ sink' = Append(sink, cb.pImage)
                 /\ cb'.header = cb.header
           /\ sink' # sink => cb.pc = "sink" ]_vars

\* The first frame of a camera in Bayer16 with a 100 x 100 region failed
\* and was not handed over; the second was, as a 100 x 100 NDUInt16 array
\* with uniqueId 2.
C19_Witness ==
    /\ cb.pc = "relock"
    /\ PvFrames[cb.slot].Format = "Bayer16"
    /\ params["PSBadFrameCounter_RBV"] = 1
    /\ Len(sink) = 1
    /\ sink[1] = cb.pImage
    /\ cb.header = [width |-> 100, height |-> 100, dataType |-> "NDUInt16",
                    uniqueId |-> 2]


\* ------------------------------------------------------------------------
\* C20
\* ------------------------------------------------------------------------

\* This step is the callback of a frame whose status is neither
\* ePvErrSuccess nor ePvErrCancelled, from line 222 to its return.
BadFrameStep ==
    /\ cb.pc = "body1"
    /\ cb'.pc # "body1"
    /\ PvFrames[cb.slot].Status \notin {"ePvErrSuccess", "ePvErrCancelled"}

\* C20: the callback of a frame whose status is neither success nor
\* cancelled adds exactly one to PSBadFrameCounter_RBV and publishes it, and
\* leaves pArrays[0], ADImageCounter, framesRemaining, the published
\* ADStatus_RBV and the image bound to the frame's slot as they were.
C20_BadFrameOnlyCounts ==
    [][ BadFrameStep
        => /\ params'["PSBadFrameCounter_RBV"] = params["PSBadFrameCounter_RBV"] + 1
           /\ published'["PSBadFrameCounter_RBV"] = params["PSBadFrameCounter_RBV"] + 1
           /\ pArrays' = pArrays
           /\ params'["ADImageCounter"] = params["ADImageCounter"]
           /\ published'["ADImageCounter_RBV"] = published["ADImageCounter_RBV"]
           /\ framesRemaining' = framesRemaining
           /\ published'["ADStatus_RBV"] = published["ADStatus_RBV"]
           /\ published'["ADAcquire"] = published["ADAcquire"]
           /\ PvFrames'[cb.slot].Context1 = PvFrames[cb.slot].Context1
           /\ sink' = sink
           /\ cb'.pc = "idle" ]_vars

\* In an acquisition of two frames the first was good and the second
\* failed: one bad frame is published, one frame is still awaited, the
\* first image is still the current one and the acquisition is published
\* as running.
C20_Witness ==
    /\ cb.pc = "idle"
    /\ PvFrames[cb.slot].Status = "ePvErrDataMissing"
    /\ acq.mode = "multiple" /\ acq.n = 2 /\ acq.good = 1
    /\ published["PSBadFrameCounter_RBV"] = 1
    /\ framesRemaining = 1
    /\ pArrays \in ImageIds
    /\ Len(sink) = 1 /\ sink[1] = pArrays
    /\ published["ADImageCounter_RBV"] = 1
    /\ published["ADStatus_RBV"] = ADStatusAcquire

\* A step in which frameCallback returns from a frame that was not
\* cancelled: its last epicsMutexUnlock (line 309).
CbReturns == cb.pc \in {"body1", "body2"} /\ cb'.pc = "idle"

\* The number of times slot s stands in the capture queue of the camera h.
TimesQueued(h, s) == Cardinality({i \in 1 .. Len(h.queue) : h.queue[i] = s})

\* C21: a callback for a frame that was not cancelled, good or bad and
\* whether or not the saving of the image failed, queues its own slot
\* again exactly once, while it still holds the mutex that it releases in
\* the same step for the last time; no earlier step of the callback touches
\* the capture queue, and no such callback ends in any other way.
C21_EveryCompletionRequeues ==
    [][ /\ CbReturns =>
            /\ mutexOwner = "cb"
            /\ mutexOwner' = "none"
            /\ (PvHandle # NULL /\ hw.open) =>
                   /\ TimesQueued(hw, cb.slot) = 0
                   /\ TimesQueued(hw', cb.slot) = 1
                   /\ hw'.queue = Append(hw.queue, cb.slot)
        /\ (cb.pc # "idle" /\ cb' # cb /\ ~CbReturns) => hw'.queue = hw.queue
        /\ cb.pc \in {"body1", "body2"} => crashed' = "none"
        /\ (cb.pc # "idle" /\ cb'.pc = "idle")
              => (CbReturns \/ PvFrames[cb.slot].Status = "ePvErrCancelled")
      ]_vars

\* A bad frame and a good frame whose saving failed have both been through
\* the callback since the acquisition was started with ADAutoSave set, and
\* both slots stand in the capture queue again.
C21_Witness ==
    /\ cb.pc = "idle"
    /\ last.function = "ADAcquire" /\ last.value = 1
    /\ params["PSBadFrameCounter_RBV"] > 0
    /\ params["ADAutoSave"] = 1
    /\ acq.good > 0
    /\ params["ADFullFileName_RBV"] = 0
    /\ \A s \in Slots : TimesQueued(hw, s) = 1

\* The session is connected: the last connectCamera() returned asynSuccess,
\* no disconnectCamera() has been called since, and no call is under way.
SessionConnected ==
    /\ last.session
    /\ client.pc = "idle"
    /\ crashed = "none"

\* The frame of slot s has been completed by the camera and its callback
\* has not begun.
Completed(s) == \E i \in 1 .. Len(hw.done) : hw.done[i] = s

\* The callback thread is inside frameCallback for slot s.
InCallback(s) == cb.pc # "idle" /\ cb.slot = s

C22_WitnessReconnected ==
    /\ SessionConnected
    /\ last.op = "connect" /\ last.wasOpen
    /\ cb.pc \in {"sink", "relock", "body2"}

\* The client is inside an interface function, past its epicsMutexLock and
\* before its epicsMutexUnlock, or inside disconnectCamera().
ClientInside == client.pc \in {"locked", "unlock", "clear"}

\* What the callback and the client operations both read and write.
sessionState ==
    << PvHandle, pArrays, framesRemaining, params, published, pool,
       [s \in Slots |-> PvFrames[s].Context1] >>

\* C23: a client operation holds the mutex from its entry to its return:
\* while a client is inside one, the mutex is the client's, the callback is
\* outside its locked sections (idle, at the test for a cancelled frame,
\* waiting for the mutex, or delivering the image with the mutex given up),
\* and no step of the callback changes the session; and while the callback
\* is inside a locked section no step of a client changes it.
C23_OneLock ==
    /\ [](ClientInside => mutexOwner = "client")
    /\ [](ClientInside => cb.pc \in {"idle", "entry", "lock", "sink", "relock"})
    /\ [][ (ClientInside /\ cb' # cb) => sessionState' = sessionState ]_vars
    /\ [][ (cb.pc \in {"body1", "body2"} /\ (client' # client \/ calls' # calls))
              => sessionState' = sessionState ]_vars

\* A client is inside writeInt32 with the mutex while the callback is in its
\* delivery window, the mutex given up.
C23_Witness ==
    /\ client.pc = "unlock"
    /\ client.op = "writeInt32"
    /\ last.function = "ADAcquire"
    /\ mutexOwner = "client"
    /\ cb.pc = "relock"

\* ------------------------------------------------------------------------
\* C24
\* ------------------------------------------------------------------------

\* A step in which a connectCamera() returns asynSuccess.
ConnectSucceeds ==
    /\ client'.op = "connect" /\ client'.pc = "idle"
    /\ client.pc = "clear" \/ calls' = calls + 1
    /\ last'.status = asynSuccess
    /\ crashed' = "none"

\* C24: an operation that changes parameters and publishes them (a
\* writeInt32, a writeFloat64, a callback for a frame that was not
\* cancelled, a connectCamera() that succeeds) makes its callParamCallbacks
\* after its last change: when it returns observers have every value of the
\* library, nothing is left for a later flush.
C24_NothingLeftUnflushed ==
    [][ (AnyWriteStep \/ CbReturns \/ ConnectSucceeds)
        => published' = params' ]_vars

\* The same for the writes and the callbacks only.
C24_WritesAndCallbacksFlushLast ==
    [][ (AnyWriteStep \/ CbReturns) => published' = params' ]_vars

\* A connectCamera() has returned asynSuccess, and the driver type that its
\* readStats stored after the callParamCallbacks of readParameters has not
\* reached the observers.
C24_StatsUnflushed ==
    /\ last.op = "connect" /\ last.status = asynSuccess
    /\ client.pc = "idle"
    /\ params["PSStatDriverType_RBV"] = StatDriverType
    /\ published["PSStatDriverType_RBV"] = ""

\* ------------------------------------------------------------------------
\* C25
\* ------------------------------------------------------------------------

\* The place of call c in the sequence of calls t, 0 when it is not there.
Pos(t, c) ==
    IF \E i \in 1 .. Len(t) : t[i] = c
    THEN CHOOSE i \in 1 .. Len(t) : t[i] = c
    ELSE 0

\* In t, call b was made only after call a.
Before(t, a, b) == Pos(t, b) # 0 => (Pos(t, a) # 0 /\ Pos(t, a) < Pos(t, b))

\* A step in which a connectCamera() returns.
ConnectReturns ==
    /\ client'.op = "connect" /\ client'.pc = "idle"
    /\ client.pc = "clear" \/ calls' = calls + 1
    /\ crashed' = "none"

\* The order of the steps of connectCamera: the one before each.
ConnectOrder ==
    << << "PvCameraInfo", "PermittedAccess" >>,
       << "PermittedAccess", "PvCameraOpen" >>,
       << "PvCameraOpen", "PvCaptureAdjustPacketSize" >>,
       << "PvCaptureAdjustPacketSize", "PvCaptureStart" >>,
       << "PvCaptureAdjustPacketSize", "queue0" >>,
       << "PvCaptureStart", "queue0" >>,
       << "PvCaptureStart", "SensorQuery" >>,
       << "SensorQuery", "alloc0" >>,
       << "alloc0", "queue0" >>,
       << "queue0", "alloc1" >>,
       << "alloc1", "queue1" >>,
       << "queue1", "setParams" >>,
       << "setParams", "readParameters" >>,
       << "readParameters", "readStats" >>,
       << "readStats", "exceptionConnect" >> >>

\* C25: every connectCamera() that returns made its calls in one order: the
\* three calls of disconnectCamera first when there was a connection; the
\* camera opened only after the test of the permitted access; the packet
\* size set and the capture started before a slot is queued; each slot
\* allocated, then queued; then the initial parameters, readParameters and
\* readStats; and exceptionConnect as the last call, made only by a connect
\* that returns success, with the camera open and capturing, both slots
\* bound to an image and queued, and the library holding what
\* readParameters and readStats read.  A connect that returned before it
\* reached PvCameraOpen leaves no handle.
C25_ConnectOrder ==
    [][ ConnectReturns =>
        LET t == last'.trace
        IN /\ \A i \in 1 .. Len(ConnectOrder) :
                Before(t, ConnectOrder[i][1], ConnectOrder[i][2])
           /\ \A i, j \in 1 .. Len(t) : t[i] = t[j] => i = j
           /\ Pos(t, "PvCameraInfo") # 0
           /\ last'.wasOpen
              => /\ SubSeq(t, 1, Len(DisconnectCalls)) = DisconnectCalls
                 /\ Pos(t, "PvCameraInfo") = Len(DisconnectCalls) + 1
           /\ ~last'.wasOpen => Pos(t, "PvCameraInfo") = 1
           /\ Pos(t, "exceptionConnect") \in {0, Len(t)}
           /\ Pos(t, "exceptionConnect") # 0 <=> last'.status = asynSuccess
           /\ connected' # connected => Pos(t, "exceptionConnect") # 0
           /\ Pos(t, "PvCameraOpen") = 0 => PvHandle' = NULL
           /\ Pos(t, "exceptionConnect") # 0
              => /\ Len(t) = (IF last'.wasOpen THEN Len(DisconnectCalls) ELSE 0)
                              + Len(ConnectSteps)
                 /\ connected'
                 /\ PvHandle' # NULL /\ hw'.open /\ hw'.capturing
                 /\ \A s \in Slots : /\ PvFrames'[s].Context1 \in ImageIds
                                     /\ InQueue(hw', s)
                 /\ FromCamera(params', hw')
                 /\ params'["PSStatDriverType_RBV"] = StatDriverType ]_vars

\* A session that was connected has connected again with success: the
\* three calls of the disconnect, then every step of the connect,
\* exceptionConnect the seventeenth and last.
C25_Witness ==
    /\ last.op = "connect" /\ last.wasOpen /\ last.status = asynSuccess
    /\ client.pc = "idle" /\ crashed = "none"
    /\ Len(last.trace) = 17
    /\ last.trace[1] = "PvCaptureQueueClear"
    /\ last.trace[6] = "PvCameraOpen"
    /\ last.trace[17] = "exceptionConnect"
    /\ hw.queue = << 0, 1 >>

\* A connect failed at readStats: every slot is queued and readParameters
\* has published, and exceptionConnect was not called.
C25_WitnessFailedLate ==
    /\ last.op = "connect" /\ last.status = asynError
    /\ client.pc = "idle" /\ crashed = "none"
    /\ Len(last.trace) > 0
    /\ last.trace[Len(last.trace)] = "readStats"
    /\ ~connected

\* ------------------------------------------------------------------------
\* C26
\* ------------------------------------------------------------------------

\* This step releases image img.
Releases(img) == pool'.relCount[img] > pool.relCount[img]

\* C26: when the callback of a good frame releases the image that was
\* current, the new image is already installed: the image released is not
\* the one pArrays[0] points to, neither before the release nor after it,
\* and pArrays[0], once set, never points to an image that was released.
C26_RetiredAfterInstalled ==
    /\ [][ \A img \in ImageIds :
              (Releases(img) /\ cb.pc \in {"body1", "install"})
              => (pArrays # img /\ pArrays' # img) ]_vars
    /\ [](cb.pc = "install" => ~Released(pArrays))

\* The callback of the second good frame has released the first image and
\* has not yet installed its own: pArrays[0] points to the released image.
C26_ReleasedWhileCurrent ==
    /\ cb.pc = "install"
    /\ mutexOwner = "cb"
    /\ pArrays \in ImageIds
    /\ Released(pArrays)
    /\ PvFrames[cb.slot].Context1 # pArrays

\* ------------------------------------------------------------------------
\* C27
\* ------------------------------------------------------------------------

\* The attributes of the geometry batch in the order claimed.
BatchOrder == << "BinningX", "BinningY", "RegionX", "RegionY", "Width", "Height" >>

\* C27: a write of any of the six geometry parameters makes six attribute
\* writes, BinningX, BinningY, RegionX, RegionY, Width, Height in this
\* order, whichever of them fail: a call that follows a failed one is still
\* made and, on an open camera, takes effect; a failed call leaves its
\* attribute as it was; the origins and sizes sent are those requested
\* divided by the binning sent before them; and the call returns an error
\* when any of the six failed, success when none did and the read-back
\* succeeded.
C27_GeometryBatch ==
    [][ GeometryWriteStep =>
        LET t == last'.trace
            r == Requested
        IN /\ Len(t) = Len(BatchOrder)
           /\ \A i \in 1 .. Len(BatchOrder) :
                /\ t[i].attr = BatchOrder[i]
                /\ t[i].ok => hw'[t[i].attr] = t[i].value
                /\ ~t[i].ok => hw'[t[i].attr] = hw[t[i].attr]
           /\ t[3].value = r["ADMinX"] \div t[1].value
           /\ t[4].value = r["ADMinY"] \div t[2].value
           /\ t[5].value = r["ADSizeX"] \div t[1].value
           /\ t[6].value = r["ADSizeY"] \div t[2].value
           /\ (\E i \in 1 .. Len(t) : ~t[i].ok) => last'.status = asynError
           /\ ((\A i \in 1 .. Len(t) : t[i].ok) /\ last'.read = "ok")
              => last'.status = asynSuccess
           /\ last'.hwWrite <=> \A i \in 1 .. Len(t) : t[i].ok ]_vars

\* ADSizeY = 200 was written to an open camera binned by 2 in Y and the
\* camera failed the first call of the batch only: the five others were
\* made, the height is 100 and the call returned an error.
C27_Witness ==
    /\ last.op = "writeInt32" /\ last.function = "ADSizeY" /\ last.value = 200
    /\ Len(last.trace) = 6
    /\ ~last.trace[1].ok
    /\ \A i \in 2 .. 6 : last.trace[i].ok
    /\ last.trace[2].value = 2
    /\ hw.Height = 100
    /\ last.status = asynError
    /\ last.read = "ok"

\* ------------------------------------------------------------------------
\* C28
\* ------------------------------------------------------------------------

\* The binning factor setGeometry is claimed to use for a requested one.
AtLeastOne(bin) == IF bin < 1 THEN 1 ELSE bin

\* C28: in every geometry write the binning factors sent to the camera are
\* the requested ones, or 1 for a requested factor below 1 (0 or negative);
\* no factor below 1 is sent, the divisors of the origins and sizes are
\* these factors and so never 0, and the camera is left with binning
\* factors of at least 1.
C28_BinningAtLeastOne ==
    [][ GeometryWriteStep =>
        LET t == last'.trace
            r == Requested
            bX == AtLeastOne(r["ADBinX"])
            bY == AtLeastOne(r["ADBinY"])
        IN /\ t[1].attr = "BinningX" /\ t[1].value = bX
           /\ t[2].attr = "BinningY" /\ t[2].value = bY
           /\ bX >= 1 /\ bY >= 1
           /\ t[3].value * bX <= r["ADMinX"]
           /\ r["ADMinX"] < (t[3].value + 1) * bX
           /\ t[4].value * bY <= r["ADMinY"]
           /\ r["ADMinY"] < (t[4].value + 1) * bY
           /\ t[5].value * bX <= r["ADSizeX"]
           /\ r["ADSizeX"] < (t[5].value + 1) * bX
           /\ t[6].value * bY <= r["ADSizeY"]
           /\ r["ADSizeY"] < (t[6].value + 1) * bY
           /\ hw'.BinningX >= 1 /\ hw'.BinningY >= 1 ]_vars

\* ADBinY = -1 was written to a camera binned by 2 in Y, which took all six
\* calls: it was sent a BinningY of 1 and the origin and size undivided.
C28_Witness ==
    /\ last.op = "writeInt32" /\ last.function = "ADBinY" /\ last.value = -1
    /\ last.hwWrite
    /\ last.trace[2].value = 1
    /\ last.trace[4].value = 20 /\ last.trace[6].value = 200
    /\ hw.BinningY = 1 /\ hw.RegionY = 20 /\ hw.Height = 200
    /\ params["ADBinY"] = 1 /\ params["ADBinY_RBV"] = 1

\* ADBinX = 0 was written and taken: the camera was sent a BinningX of 1.
C28_WitnessZero ==
    /\ last.op = "writeInt32" /\ last.function = "ADBinX" /\ last.value = 0
    /\ last.hwWrite
    /\ last.trace[1].value = 1
    /\ hw.BinningX = 1

\* ------------------------------------------------------------------------
\* C29
\* ------------------------------------------------------------------------

\* The trigger modes in the order claimed, for the indices 0 .. 6.
ClaimedTriggerModes ==
    << "Freerun", "SyncIn1", "SyncIn2", "SyncIn3", "SyncIn4", "FixedRate",
       "Software" >>

\* The name the camera holds is one of the list.
TriggerKnown(h) ==
    \E i \in 1 .. Len(ClaimedTriggerModes) :
        h.FrameStartTriggerMode = ClaimedTriggerModes[i]

\* C29: a write of trigger mode i, for each i in 0 .. 6, sends the camera
\* the i-th name of the list Freerun, SyncIn1, SyncIn2, SyncIn3, SyncIn4,
\* FixedRate, Software; every readParameters that the camera answers
\* publishes as ADTriggerMode_RBV the index of the name the camera holds,
\* so the i written when the camera took it; and when the camera holds a
\* name that is not in the list it publishes 0 and the call returns an
\* error.
C29_TriggerRoundTrip ==
    /\ [][ (WriteStep("ADTriggerMode") /\ last'.hwWrite)
           => /\ last'.value \in 0 .. 6
              /\ hw'.FrameStartTriggerMode = ClaimedTriggerModes[last'.value + 1]
              /\ last'.read = "ok"
                 => /\ params'["ADTriggerMode_RBV"] = last'.value
                    /\ published'["ADTriggerMode_RBV"] = last'.value ]_vars
    /\ [][ (AnyWriteStep /\ ~last'.hwWrite)
           => hw'.FrameStartTriggerMode = hw.FrameStartTriggerMode ]_vars
    /\ [][ (AnyWriteStep /\ last'.read = "ok")
           => /\ \A i \in 0 .. 6 :
                   hw'.FrameStartTriggerMode = ClaimedTriggerModes[i + 1]
                   => published'["ADTriggerMode_RBV"] = i
              /\ ~TriggerKnown(hw')
                 => /\ published'["ADTriggerMode_RBV"] = 0
                    /\ last'.status = asynError ]_vars
    /\ []( (last.op = "connect" /\ ~TriggerKnown(hw))
           => /\ last.status = asynError
              /\ published["ADTriggerMode_RBV"] = 0 )

\* Trigger mode 4 was the first write to the camera, which took it: it
\* holds SyncIn4 and the readback published is 4.
C29_Witness ==
    /\ last.op = "writeInt32" /\ last.function = "ADTriggerMode"
    /\ last.value = 4
    /\ last.hwWrite /\ last.read = "ok" /\ last.status = asynSuccess
    /\ hw.FrameStartTriggerMode = "SyncIn4"
    /\ published["ADTriggerMode_RBV"] = 4
    /\ calls = 1
    /\ published["ADImageMode_RBV"] = ADImageContinuous

\* The image mode was written to a camera that holds SyncOut1, a name that
\* is not in the list, and the camera answered the read-back: the trigger
\* mode published is 0 and the call returned an error.
C29_WitnessUnknown ==
    /\ last.op = "writeInt32" /\ last.function = "ADImageMode"
    /\ last.hwWrite /\ last.read = "ok"
    /\ hw.FrameStartTriggerMode = "SyncOut1"
    /\ published["ADTriggerMode_RBV"] = 0
    /\ last.status = asynError

\* ------------------------------------------------------------------------
\* C30
\* ------------------------------------------------------------------------

\* The AcquisitionMode claimed for each image mode.
ClaimedAcquisitionMode ==
    [m \in {ADImageSingle, ADImageMultiple, ADImageContinuous} |->
        CASE m = ADImageSingle     -> "SingleFrame"
          [] m = ADImageMultiple   -> "MultiFrame"
          [] m = ADImageContinuous -> "Continuous"]

\* C30: a write of image mode single, multiple or continuous that the
\* camera takes changes one attribute of the camera, AcquisitionMode, to
\* SingleFrame, MultiFrame or Continuous, and one that the camera fails
\* costs it that one call; every readParameters that the camera answers
\* publishes as ADImageMode_RBV single for SingleFrame, multiple for
\* MultiFrame and for Recorder, continuous for Continuous, and 0 with an
\* error returned for any other mode; so a mode written and taken is the
\* mode read back.
C30_ImageModeTranslation ==
    /\ [][ WriteStep("ADImageMode")
           => /\ last'.value \in DOMAIN ClaimedAcquisitionMode
              /\ last'.hwWrite
                 => /\ [hw' EXCEPT !.faultsLeft = hw.faultsLeft]
                         = [hw EXCEPT !.AcquisitionMode =
                                         ClaimedAcquisitionMode[last'.value]]
                    /\ last'.read = "ok"
                       => /\ hw'.faultsLeft = hw.faultsLeft
                          /\ params'["ADImageMode_RBV"] = last'.value
                          /\ published'["ADImageMode_RBV"] = last'.value
              /\ (~last'.hwWrite /\ last'.wasOpen /\ hw.open /\ last'.read = "ok")
                 => hw' = [hw EXCEPT !.faultsLeft = @ - 1] ]_vars
    /\ [][ (AnyWriteStep /\ last'.read = "ok")
           => LET mode == hw'.AcquisitionMode
                  rbv == published'["ADImageMode_RBV"]
              IN /\ mode = "SingleFrame" => rbv = ADImageSingle
                 /\ mode = "MultiFrame" => rbv = ADImageMultiple
                 /\ mode = "Recorder" => rbv = ADImageMultiple
                 /\ mode = "Continuous" => rbv = ADImageContinuous
                 /\ mode \notin AcquisitionModes
                    => rbv = 0 /\ last'.status = asynError ]_vars

\* The image count was written to a camera in Recorder mode, which took it
\* and answered the read-back: the image mode published is multiple and the
\* call returned success.
C30_Witness ==
    /\ last.op = "writeInt32" /\ last.function = "ADNumImages"
    /\ last.hwWrite /\ last.read = "ok" /\ last.status = asynSuccess
    /\ hw.AcquisitionMode = "Recorder"
    /\ published["ADImageMode_RBV"] = ADImageMultiple
    /\ published["ADImageMode"] = ADImageSingle

\* The image count was written to a camera in a mode the driver does not
\* know: the image mode published is 0 and the call returned an error.
C30_WitnessUnknown ==
    /\ last.op = "writeInt32" /\ last.function = "ADNumImages"
    /\ last.hwWrite /\ last.read = "ok"
    /\ hw.AcquisitionMode = "Burst"
    /\ published["ADImageMode_RBV"] = 0
    /\ last.status = asynError

\* Image mode multiple was the first write to the camera, which took it:
\* the camera is in MultiFrame and the image mode published is multiple.
C30_WitnessRoundTrip ==
    /\ last.op = "writeInt32" /\ last.function = "ADImageMode"
    /\ last.value = ADImageMultiple
    /\ last.hwWrite /\ last.read = "ok" /\ last.status = asynSuccess
    /\ calls = 1
    /\ hw.AcquisitionMode = "MultiFrame"
    /\ published["ADImageMode_RBV"] = ADImageMultiple
    /\ params["ADBinX_RBV"] = 1

\* ------------------------------------------------------------------------
\* C31: order of the statements of an acquire write
\* ------------------------------------------------------------------------

\* The step in which writeInt32(ADAcquire, value) sends its command.
StartCommand ==
    client.pc = "acqStatus" /\ client'.pc = "acqCommand" /\ last.value # 0

StopCommand ==
    client.pc = "acqStatus" /\ client'.pc = "acqCommand" /\ last.value = 0

\* A step of a writeInt32(ADAcquire, 0).
StopStep ==
    /\ client.pc \in {"acqStored", "acqStatus", "acqCommand"}
    /\ last.value = 0
    /\ client' # client

\* The count of frames an acquisition started from the library p waits for.
CountFor(p) ==
    CASE p["ADImageMode"] = ADImageSingle   -> 1
      [] p["ADImageMode"] = ADImageMultiple -> p["ADNumImages"]
      [] OTHER                              -> -1

\* C31: when an acquire write with a nonzero value sends AcquisitionStart
\* it has already assigned framesRemaining for the acquisition it starts
\* and set ADStatus_RBV to Acquiring; an acquire write of zero has set
\* ADStatus_RBV to Idle when it sends AcquisitionAbort, and none of its
\* steps changes framesRemaining.
C31_AcquireDispatchOrder ==
    [][ /\ StartCommand =>
             /\ acq.mode \in {"single", "multiple", "continuous"}
             /\ framesRemaining = CountFor(params)
             /\ params["ADStatus_RBV"] = ADStatusAcquire
        /\ StopCommand => params["ADStatus_RBV"] = ADStatusIdle
        /\ StopStep => framesRemaining' = framesRemaining ]_vars

\* The same for the acquisitions started in one of the three image modes,
\* the only ones for which line 707 has a case.
C31_OrderInTheThreeModes ==
    [][ /\ (StartCommand /\ params["ADImageMode"] \in
                               {ADImageSingle, ADImageMultiple, ADImageContinuous})
            => /\ framesRemaining = CountFor(params)
               /\ params["ADStatus_RBV"] = ADStatusAcquire
        /\ StopCommand => params["ADStatus_RBV"] = ADStatusIdle
        /\ StopStep => framesRemaining' = framesRemaining ]_vars

\* AcquisitionStart is sent for an acquisition in an image mode outside the
\* three, with framesRemaining as the call found it.
C31_StartNotCounted ==
    /\ client.pc = "acqCommand"
    /\ last.value # 0
    /\ last.hwWrite
    /\ acq.mode = "other"
    /\ hw.acquiring

\* AcquisitionStart has been sent for a multiple-mode acquisition and taken
\* by the camera, the count assigned and the status set.
C31_WitnessStarted ==
    /\ client.pc = "acqCommand"
    /\ last.value # 0
    /\ last.hwWrite
    /\ acq.mode = "multiple"
    /\ framesRemaining = params["ADNumImages"]
    /\ params["ADStatus_RBV"] = ADStatusAcquire

\* ------------------------------------------------------------------------
\* C32: frames that complete after an abort
\* ------------------------------------------------------------------------

\* The last call a client made was writeInt32(ADAcquire, 0).
Aborted ==
    last.op = "writeInt32" /\ last.function = "ADAcquire" /\ last.value = 0

\* The callback of a good frame returns.
GoodFrameReturns == cb.pc = "body2" /\ cb'.pc = "idle"

\* C32: AcquisitionAbort cancels nothing in the driver.  After an abort a
\* frame that is not cancelled still goes on from the callback's entry to
\* the mutex, a good frame is handed to the NDArray callback, counted in
\* ADImageCounter and its slot queued again, a bad one counted and queued
\* again; the published ADStatus_RBV is Idle in every state until a client
\* next writes a nonzero ADAcquire; and no step of the callback sets
\* ADStatus_RBV to Acquiring.
C32_AbortCancelsNothing ==
    /\ [](Aborted => published["ADStatus_RBV"] = ADStatusIdle)
    /\ [][ /\ (Aborted /\ CbLeavesEntry
                    /\ PvFrames[cb.slot].Status # "ePvErrCancelled")
               => cb'.pc = "lock"
           /\ (Aborted /\ cb.pc = "sink" /\ cb' # cb)
               => sink' = Append(sink, PvFrames[cb.slot].Context1)
           /\ (Aborted /\ GoodFrameReturns)
               => /\ params'["ADImageCounter"] = params["ADImageCounter"] + 1
                  /\ InQueue(hw', cb.slot)
           /\ (Aborted /\ BadFrameStep)
               => /\ params'["PSBadFrameCounter_RBV"]
                        = params["PSBadFrameCounter_RBV"] + 1
                  /\ InQueue(hw', cb.slot)
           /\ (cb' # cb)
               => /\ params'["ADStatus_RBV"] = ADStatusAcquire
                        => params["ADStatus_RBV"] = ADStatusAcquire
                  /\ published'["ADStatus_RBV"] = ADStatusAcquire
                        => published["ADStatus_RBV"] = ADStatusAcquire ]_vars

\* A multiple-mode acquisition was aborted by the camera with frames still
\* expected, and the callback, which took the mutex after the abort, is
\* about to count a frame it has handed to the NDArray callback.
C32_Witness ==
    /\ Aborted
    /\ last.hwWrite
    /\ ~hw.acquiring
    /\ cb.pc = "body2"
    /\ framesRemaining > 0
    /\ Len(sink) > 0
    /\ sink[Len(sink)] = cb.pImage
    /\ published["ADStatus_RBV"] = ADStatusIdle

\* After the abort both frames of the acquisition have been through the
\* callback: counted, their slots queued, the status still Idle.
C32_WitnessAfter ==
    /\ Aborted
    /\ cb.pc = "idle"
    /\ hw.done = << >>
    /\ params["ADImageCounter"] = 2
    /\ framesRemaining = 0
    /\ Len(hw.queue) = 2
    /\ published["ADStatus_RBV"] = ADStatusIdle

\* ------------------------------------------------------------------------
\* C33: the status writeInt32 returns
\* ------------------------------------------------------------------------

\* The last call was a writeInt32 in which a call to the camera or one of
\* readStats, writeFile and readParameters failed, or which the handler
\* itself refused.
SubOperationFailed ==
    /\ last.op = "writeInt32"
    /\ \/ \E i \in 1 .. Len(last.trace) : ~last.trace[i].ok
       \/ last.read = "failed"
       \/ /\ last.function \notin CommandParams
          /\ Dispatch(last.function, last.value, params, hw).calls
          /\ ~last.hwWrite

\* C33: the status writeInt32 returns is not asynSuccess whenever a call
\* to the camera or a sub-operation made during the write failed, the
\* writes of PSReadStatistics and ADWriteFile included.
C33_StatusIsAggregate == SubOperationFailed => last.status # asynSuccess

\* The same for every write but that of PSReadStatistics.
C33_AggregateButForStatistics ==
    (SubOperationFailed /\ last.function # "PSReadStatistics")
        => last.status # asynSuccess

\* writeInt32(PSReadStatistics) returned asynSuccess although its readStats
\* failed.
C33_StatsFailureUnreported ==
    /\ last.op = "writeInt32"
    /\ last.function = "PSReadStatistics"
    /\ last.trace[2] = Did("readStats", FALSE)
    /\ last.status = asynSuccess
    /\ params["PSStatDriverType_RBV"] = "?"

\* writeInt32(ADWriteFile) wrote the image of the last good frame and
\* returned asynSuccess.
C33_WitnessFileWritten ==
    /\ last.op = "writeInt32"
    /\ last.function = "ADWriteFile"
    /\ last.status = asynSuccess
    /\ pArrays # NULL
    /\ params["ADFullFileName_RBV"] = pArrays

\* ------------------------------------------------------------------------
\* C34: the release loop of disconnectCamera
\* ------------------------------------------------------------------------

\* C34: on a session with a handle the release loop of disconnectCamera
\* runs its body on the MAX_FRAMES elements of PvFrames and on nothing
\* else: the test made with pFrame past the last element ends the loop, the
\* handle is set to NULL and disconnectCamera returns.
C34_TeardownTerminates ==
    /\ [](client.pc = "loop" => last.value \in 0 .. MAX_FRAMES)
    /\ [][ (client.pc = "loop" /\ last.value = MAX_FRAMES
               /\ (last' # last \/ client' # client \/ crashed' # crashed))
           => /\ PvHandle' = NULL
              /\ client'.pc = "idle"
              /\ crashed' = "none"
              /\ last'.released <= MAX_FRAMES ]_vars

\* The loop is at work on memory past the end of PvFrames.
C34_PastTheArray ==
    /\ client.pc = "loop"
    /\ last.value > MAX_FRAMES
    /\ last.released = MAX_FRAMES

\* The process died in the loop, both slots released, with the handle
\* still set and the mutex held.
C34_DiedInLoop ==
    /\ crashed = "disconnectCamera"
    /\ client.pc = "loop"
    /\ last.value >= MAX_FRAMES
    /\ PvHandle # NULL
    /\ mutexOwner = "client"

\* ------------------------------------------------------------------------
\* C35: the two frame counters
\* ------------------------------------------------------------------------

\* The two counters as the library holds them.
Counters == << params["ADImageCounter"], params["PSBadFrameCounter_RBV"] >>

\* A connectCamera() returns having reached its initial parameters (line
\* 629): both slots are in the capture queue it opened.
ConnectSetsParams == ConnectReturns /\ hw'.queue = << 0, 1 >>

\* C35: the callback of a good frame adds exactly one to ADImageCounter
\* and leaves PSBadFrameCounter_RBV; the callback of a frame with an error
\* status adds exactly one to PSBadFrameCounter_RBV and leaves
\* ADImageCounter; no other step of the callback thread, that of a
\* cancelled frame included, changes either; and a connectCamera() that
\* reaches its initial parameters sets PSBadFrameCounter_RBV to 0 and
\* leaves ADImageCounter.
C35_CounterAccounting ==
    [][ /\ GoodFrameReturns =>
              Counters' = << params["ADImageCounter"] + 1,
                             params["PSBadFrameCounter_RBV"] >>
        /\ BadFrameStep =>
              Counters' = << params["ADImageCounter"],
                             params["PSBadFrameCounter_RBV"] + 1 >>
        /\ (cb' # cb /\ ~GoodFrameReturns /\ ~BadFrameStep) => Counters' = Counters
        /\ (hw'.done # hw.done \/ hw'.cancel # hw.cancel) => Counters' = Counters
        /\ ConnectSetsParams =>
              Counters' = << params["ADImageCounter"], 0 >>
        /\ (ConnectReturns /\ ~ConnectSetsParams) => Counters' = Counters ]_vars

\* A session that counted a good frame, and on which the one fault of the
\* run has occurred, was connected again: the bad-frame counter is 0 and the
\* image counter still 1.
C35_Witness ==
    /\ last.op = "connect"
    /\ last.wasOpen
    /\ hw.queue = << 0, 1 >>
    /\ hw.faultsLeft = 0
    /\ params["ADImageCounter"] = 1
    /\ params["PSBadFrameCounter_RBV"] = 0

\* Both counters have counted, and a cancelled frame has been through the
\* callback since.
C35_WitnessCounted ==
    /\ params["ADImageCounter"] = 1
    /\ params["PSBadFrameCounter_RBV"] = 1
    /\ cb.pc = "idle"
    /\ PvFrames[cb.slot].Status = "ePvErrCancelled"

\* ------------------------------------------------------------------------
\* C36: Acquiring in single or multiple mode means frames are expected
\* ------------------------------------------------------------------------

\* C36: whenever the published ADStatus_RBV is Acquiring and the image
\* mode is single or multiple, framesRemaining is positive, whatever image
\* count was written.
C36_AcquiringMeansFramesExpected ==
    (/\ published["ADStatus_RBV"] = ADStatusAcquire
     /\ params["ADImageMode"] \in {ADImageSingle, ADImageMultiple})
        => framesRemaining > 0

\* The same for an acquisition started with a positive image count, while
\* the image mode and count are those it was started with.
C36_HoldsForPositiveCounts ==
    (/\ published["ADStatus_RBV"] = ADStatusAcquire
     /\ acq.mode \in {"single", "multiple"}
     /\ AcqModeName(params["ADImageMode"]) = acq.mode
     /\ params["ADNumImages"] = acq.n
     /\ acq.mode = "multiple" => acq.n > 0)
        => framesRemaining > 0

\* A multiple-mode acquisition of -1 images is published as Acquiring, and
\* a frame has been counted without bringing it nearer its end.
C36_NeverEnds ==
    /\ published["ADStatus_RBV"] = ADStatusAcquire
    /\ params["ADImageMode"] = ADImageMultiple
    /\ params["ADNumImages"] = -1
    /\ framesRemaining = -1
    /\ acq.good > 0
    /\ hw.acquiring

\* A multiple-mode acquisition of 0 images is published as Acquiring with
\* no frame expected.
C36_AcquiringNone ==
    /\ published["ADStatus_RBV"] = ADStatusAcquire
    /\ params["ADImageMode"] = ADImageMultiple
    /\ params["ADNumImages"] = 0
    /\ framesRemaining = 0

\* ------------------------------------------------------------------------
\* C37: an acquisition started inside a callback's NDArray callback
\* ------------------------------------------------------------------------

\* The last client call started an acquisition while the callback that is
\* now running had given up the mutex for its NDArray callback.
StartedInWindow ==
    /\ last.op = "writeInt32" /\ last.function = "ADAcquire" /\ last.value # 0
    /\ Len(last.trace) = 1
    /\ last.trace[1].pc \in {"sink", "relock"}
    /\ last.trace[1].pImage = cb.pImage

\* C37: a callback that finds, when it has the mutex again, that an
\* acquisition was started while it was delivering its frame does not
\* count the frame against that acquisition: it leaves framesRemaining as
\* the start set it and the status Acquiring.
C37_CountedAgainstItsOwnAcquisition ==
    [][ (GoodFrameReturns /\ StartedInWindow)
          => /\ framesRemaining' = framesRemaining
             /\ params'["ADStatus_RBV"] = ADStatusAcquire
             /\ published'["ADStatus_RBV"] = ADStatusAcquire ]_vars

\* A single-mode acquisition started while the frame that is now the
\* current image was being delivered has been ended by that frame: the
\* camera was told to start and the published status is Idle.
C37_EndedByEarlierFrame ==
    /\ last.op = "writeInt32" /\ last.function = "ADAcquire" /\ last.value # 0
    /\ last.hwWrite
    /\ Len(last.trace) = 1
    /\ last.trace[1].pc \in {"sink", "relock"}
    /\ last.trace[1].pImage = pArrays
    /\ acq.mode = "single"
    /\ acq.good = 1
    /\ framesRemaining = 0
    /\ hw.acquiring
    /\ published["ADStatus_RBV"] = ADStatusIdle
    /\ published["ADAcquire"] = 0

\* ------------------------------------------------------------------------
\* C38: the image blocks the driver owns
\* ------------------------------------------------------------------------

\* The blocks the pool has handed out and that have not been released.
Outstanding(pl) == {i \in ImageIds : i < pl.next /\ pl.relCount[i] = 0}

\* The blocks a slot or pArrays[0] points to.
Held(frames, current) == SlotImages(frames) \cup ({current} \cap ImageIds)

\* C38: the driver never has more than MAX_FRAMES + 1 blocks allocated
\* and not released, and never loses its reference to a block it has not
\* released: a block that a slot or pArrays[0] pointed to before a step is
\* still pointed to, or has been released, after it.
C38_BoundedImageOwnership ==
    /\ [](Cardinality(Outstanding(pool)) <= MAX_FRAMES + 1)
    /\ [][ \A i \in Held(PvFrames, pArrays) :
               i \in Held(PvFrames', pArrays') \/ pool'.relCount[i] > 0 ]_vars

\* The same of the steps of the callback thread on a session no client
\* disconnects or connects.
C38_CallbackKeepsItsImages ==
    [][ cb' # cb =>
          \A i \in Held(PvFrames, pArrays) :
               i \in Held(PvFrames', pArrays') \/ pool'.relCount[i] > 0 ]_vars

\* A block that was allocated and never released is pointed to by no slot
\* and is not the current image, on a session that has been connected
\* again.
C38_Leaked ==
    /\ last.op = "connect"
    /\ last.status = asynSuccess
    /\ \E i \in Outstanding(pool) : i \notin Held(PvFrames, pArrays)

\* ------------------------------------------------------------------------
\* C39: the callback beside a disconnect
\* ------------------------------------------------------------------------

\* The callback thread uses the image of a good frame (lines 222-231).
UsesSlotImage ==
    /\ cb.pc = "body1"
    /\ PvFrames[cb.slot].Status = "ePvErrSuccess"
    /\ << cb, crashed >> # << cb', crashed' >>

\* The callback thread calls PvCaptureQueueFrame (line 308) and returns.
Resubmits == cb.pc \in {"body1", "body2"} /\ cb'.pc = "idle"

\* C39: whatever a client's disconnect does beside it, the callback uses a
\* slot's image reference only when it is not NULL, and hands a slot back
\* to the capture queue only while the session's handle is that of an open
\* camera.
C39_CallbackBesideDisconnect ==
    [][ /\ UsesSlotImage => PvFrames[cb.slot].Context1 # NULL
        /\ Resubmits => (PvHandle # NULL /\ hw.open) ]_vars

\* A good frame's callback that was waiting for the mutex while the client
\* disconnected has dereferenced the NULL the disconnect left in the slot.
C39_ReadNull ==
    /\ crashed = "frameCallback"
    /\ last.op = "disconnect"
    /\ PvFrames[cb.slot].Context1 = NULL

\* A callback that was in its delivery window while the client disconnected
\* has returned, and the slot it handed to PvCaptureQueueFrame with a NULL
\* handle is in no queue and holds a new image.
C39_ResubmittedClosed ==
    /\ last.op = "disconnect"
    /\ PvHandle = NULL
    /\ cb.pc = "idle"
    /\ crashed = "none"
    /\ \E s \in DOMAIN PvFrames :
          /\ PvFrames[s].Context1 \in Outstanding(pool)
          /\ ~InQueue(hw, s)

\* ------------------------------------------------------------------------
\* C40: framesRemaining of a new acquisition
\* ------------------------------------------------------------------------

\* The step of lines 705-717 in a writeInt32(ADAcquire, 1).
CountStep == client.pc = "acqStored" /\ client'.pc = "acqCounted"

\* A writeInt32(ADImageMode, value) with a value outside the three modes
\* returns.
OtherModeWritten ==
    /\ calls' = calls + 1
    /\ last'.function = "ADImageMode"
    /\ last'.value \notin {ADImageSingle, ADImageMultiple, ADImageContinuous}

\* The values framesRemaining takes.
FrameCounts == -1 .. MaxNumImages

\* C40: the count an acquire-start leaves in framesRemaining comes from
\* the stored ADImageMode and ADNumImages alone, the same whatever
\* framesRemaining was before the start, for every value ADImageMode can
\* hold; a write of an ADImageMode outside the three modes is stored,
\* makes no hardware write, and returns success when the readback does.
C40_CountAssignedAfresh ==
    [][ /\ CountStep =>
              \A old \in FrameCounts :
                  FramesFor(params["ADImageMode"], params["ADNumImages"], old)
                      = framesRemaining'
        /\ OtherModeWritten =>
              /\ params'["ADImageMode"] = last'.value
              /\ ~last'.hwWrite
              /\ last'.read = "ok" => last'.status = asynSuccess ]_vars

\* The part of it about the write of the image mode, and the count in the
\* three modes.
C40_AfreshInTheThreeModes ==
    [][ /\ (CountStep /\ params["ADImageMode"] \in
                            {ADImageSingle, ADImageMultiple, ADImageContinuous})
            => framesRemaining' = CountFor(params)
        /\ OtherModeWritten =>
              /\ params'["ADImageMode"] = last'.value
              /\ ~last'.hwWrite
              /\ last'.read = "ok" => last'.status = asynSuccess ]_vars

\* An acquisition has been started in an image mode outside the three and
\* waits for the frames the multiple-mode acquisition before it had left.
C40_CarriedOver ==
    /\ client.pc = "acqCommand"
    /\ last.hwWrite
    /\ acq.mode = "other"
    /\ framesRemaining > 0
    /\ params["ADStatus_RBV"] = ADStatusAcquire

\* A write of an image mode outside the three has been stored with success
\* and no hardware write.
C40_OtherModeStored ==
    /\ last.function = "ADImageMode"
    /\ last.value \notin {ADImageSingle, ADImageMultiple, ADImageContinuous}
    /\ params["ADImageMode"] = last.value
    /\ last.status = asynSuccess
    /\ ~last.hwWrite

====
